---------------------------- MODULE Spec2Model ----------------------------
(***************************************************************************)
(* Model of the vmselect netstorage query data-plane                       *)
(* (src/unnamed/part_000, package netstorage): block decoding and          *)
(* clipping (sortBlock.unpackFrom), the k-way heap merge                   *)
(* (mergeSortBlocks), the series unpacker (packedTimeseries.Unpack), the   *)
(* series worker pool (timeseriesWorker) and Results.RunParallel.          *)
(*                                                                         *)
(* Go slices are modelled as TLA+ sequences.  Go indices are 0-based; the  *)
(* operators below keep the 0-based indices of the source (i, j, NextIdx,  *)
(* idxNext) and add 1 where a sequence is indexed.                         *)
(***************************************************************************)
EXTENDS Integers, Sequences, FiniteSets

(***************************************************************************)
(* Bounds of the model.                                                    *)
(***************************************************************************)
\* largest timestamp stored in a block; timestamps are drawn from 1..MaxTs
MaxTs == 3
\* largest number of blocks of the series that is decoded and merged
MaxBlocks == 3
\* largest total number of rows over the blocks of that series
MaxSamples == 4
\* largest number of series of one Results
MaxSeries == 2

(***************************************************************************)
(* Program constants.                                                      *)
(***************************************************************************)
\* var gomaxprocs = runtime.GOMAXPROCS(-1): the number of series workers
gomaxprocs == 2
\* var unpackBatchSize = 8 * runtime.GOMAXPROCS(-1)
unpackBatchSize == 8 * gomaxprocs
\* make(chan *timeseriesWork, gomaxprocs*16)
timeseriesWorkChCap == gomaxprocs * 16
\* make(chan *unpackWork, gomaxprocs*128)
unpackWorkChCap == gomaxprocs * 128

Nil == "nil"

\* the nil error of a completion channel; a non-nil error is
\* [msg, cause, tsw]: its text, the error it wraps, and the index of the
\* unit it was made for, which stands for the identity of the error value
NilErr == [msg |-> Nil, cause |-> Nil, tsw |-> 0]

(***************************************************************************)
(* Helpers on sequences.                                                   *)
(***************************************************************************)
\* Go's s[from:to] with 0-based from (inclusive) and to (exclusive)
Slice(s, from, to) == SubSeq(s, from + 1, to)

Range(s) == {s[k] : k \in 1..Len(s)}

IsNonDecreasing(s) == \A k \in 1..(Len(s) - 1) : s[k] <= s[k + 1]

IsStrictlyIncreasing(s) == \A k \in 1..(Len(s) - 1) : s[k] < s[k + 1]

RECURSIVE Pow10(_)
Pow10(e) == IF e <= 0 THEN 1 ELSE 10 * Pow10(e - 1)

(***************************************************************************)
(* Result and Result.reset.                                                *)
(***************************************************************************)
\* var rs Result: the zero Result
EmptyResult == [MetricName |-> Nil, Values |-> <<>>, Timestamps |-> <<>>]

\* a reset that leaves the samples in place
ResultResetKeepsSamples(r) == [r EXCEPT !.MetricName = Nil]

\* func (r *Result) reset()
ResultReset(r) == [MetricName |-> Nil, Values |-> <<>>, Timestamps |-> <<>>]

(***************************************************************************)
(* Storage boundary: a BlockRef names a stored block                       *)
(*   [timestamps, values, scale, corrupt]                                  *)
(* whose timestamps are non-decreasing.  MustReadBlock copies the header   *)
(* and, only if fetchData, the rows; UnmarshalData fails on a corrupt      *)
(* payload.                                                                *)
(***************************************************************************)
MustReadBlock(br, fetchData) ==
    [rowsCount  |-> Len(br.timestamps),
     scale      |-> br.scale,
     corrupt    |-> br.corrupt,
     timestamps |-> IF fetchData THEN br.timestamps ELSE <<>>,
     values     |-> IF fetchData THEN br.values ELSE <<>>]

\* sb.b.UnmarshalData(): Nil, or the codec error
UnmarshalData(b) == IF b.corrupt THEN "cannot unmarshal block" ELSE Nil

\* decimal.AppendDecimalToFloat(dst, va, e): v * 10^e for every v
AppendDecimalToFloat(dst, va, e) ==
    dst \o [k \in 1..Len(va) |-> va[k] * Pow10(e)]

(***************************************************************************)
(* sortBlock.                                                              *)
(***************************************************************************)
\* getSortBlock(): a fresh or a reset pooled sortBlock
getSortBlock == [Timestamps |-> <<>>, Values |-> <<>>, NextIdx |-> 0]

\* for i < len(timestamps) && timestamps[i] < tr.MinTimestamp { i++ }
RECURSIVE SkipSmaller(_, _, _)
SkipSmaller(timestamps, i, MinTimestamp) ==
    IF i < Len(timestamps) /\ timestamps[i + 1] < MinTimestamp
    THEN SkipSmaller(timestamps, i + 1, MinTimestamp)
    ELSE i

\* a clipping that forgets to retreat j
SkipBiggerNoRetreat(timestamps, i, j, MaxTimestamp) == j

\* for j > i && timestamps[j-1] > tr.MaxTimestamp { j-- }
RECURSIVE SkipBigger(_, _, _, _)
SkipBigger(timestamps, i, j, MaxTimestamp) ==
    IF j > i /\ timestamps[j] > MaxTimestamp
    THEN SkipBigger(timestamps, i, j - 1, MaxTimestamp)
    ELSE j

\* a copy that converts values[:j] instead of values[i:j]
CopyRowsValuesFromStart(sb, b, i, j) ==
    [sb EXCEPT !.Timestamps = sb.Timestamps \o Slice(b.timestamps, i, j),
               !.Values = AppendDecimalToFloat(sb.Values,
                                               Slice(b.values, 0, j),
                                               b.scale)]

\* sb.Timestamps = append(sb.Timestamps, timestamps[i:j]...)
\* sb.Values = decimal.AppendDecimalToFloat(sb.Values, values[i:j], scale)
CopyRows(sb, b, i, j) ==
    [sb EXCEPT !.Timestamps = sb.Timestamps \o Slice(b.timestamps, i, j),
               !.Values = AppendDecimalToFloat(sb.Values,
                                               Slice(b.values, i, j),
                                               b.scale)]

\* func (sb *sortBlock) unpackFrom(br, tr, fetchData) error
\* the result holds the error, the sortBlock and the skipped-row count
unpackFrom(sb, br, tr, fetchData) ==
    LET b == MustReadBlock(br, fetchData)
        err == IF fetchData THEN UnmarshalData(b) ELSE Nil
        i == SkipSmaller(b.timestamps, 0, tr.MinTimestamp)
        j == SkipBigger(b.timestamps, i, Len(b.timestamps), tr.MaxTimestamp)
    IN  IF err # Nil
        THEN [err |-> err, sb |-> sb, skippedRows |-> 0]
        ELSE [err |-> Nil,
              sb |-> IF i = j THEN sb ELSE CopyRows(sb, b, i, j),
              skippedRows |-> b.rowsCount - (j - i)]

(***************************************************************************)
(* sortBlocksHeap under container/heap.  A heap is a sequence of           *)
(* sortBlocks; i, j, n are the 0-based indices of the Go code.             *)
(***************************************************************************)
\* the head timestamp a.Timestamps[a.NextIdx]
HeadTs(sb) == sb.Timestamps[sb.NextIdx + 1]

\* func (sbh sortBlocksHeap) Less(i, j int) bool
Less(sbh, i, j) == HeadTs(sbh[i + 1]) < HeadTs(sbh[j + 1])

\* func (sbh sortBlocksHeap) Swap(i, j int)
Swap(sbh, i, j) == [sbh EXCEPT ![i + 1] = sbh[j + 1], ![j + 1] = sbh[i + 1]]

\* container/heap up(h, j)
RECURSIVE up(_, _)
up(sbh, j) ==
    LET i == (j - 1) \div 2
    IN  IF j <= 0 \/ ~Less(sbh, j, i)
        THEN sbh
        ELSE up(Swap(sbh, i, j), i)

\* container/heap down(h, i0, n)
RECURSIVE down(_, _, _)
down(sbh, i, n) ==
    LET j1 == 2 * i + 1
        j2 == j1 + 1
        j == IF j2 < n /\ Less(sbh, j2, j1) THEN j2 ELSE j1
    IN  IF j1 >= n
        THEN sbh
        ELSE IF ~Less(sbh, j, i)
             THEN sbh
             ELSE down(Swap(sbh, i, j), j, n)

\* for i := n/2 - 1; i >= 0; i-- { down(h, i, n) }
RECURSIVE heapInitFrom(_, _)
heapInitFrom(sbh, i) ==
    IF i < 0 THEN sbh ELSE heapInitFrom(down(sbh, i, Len(sbh)), i - 1)

\* heap.Init(&sbh)
heapInit(sbh) == heapInitFrom(sbh, (Len(sbh) \div 2) - 1)

\* a pop that removes the root without restoring the heap order
heapPopNoDown(sbh) ==
    LET n == Len(sbh) - 1
    IN  SubSeq(Swap(sbh, 0, n), 1, n)

\* heap.Pop(&sbh): the heap left after the root is removed
heapPop(sbh) ==
    LET n == Len(sbh) - 1
    IN  SubSeq(down(Swap(sbh, 0, n), 0, n), 1, n)

\* heap.Push(&sbh, x)
heapPush(sbh, x) == up(Append(sbh, x), Len(sbh))

\* min-heap order on the head timestamps
IsHeap(sbh) ==
    \A k \in 1..(Len(sbh) - 1) : ~Less(sbh, k, (k - 1) \div 2)

(***************************************************************************)
(* mergeSortBlocks.  The state of the merge is                             *)
(*   [dst, sbh, done, panic, put]                                          *)
(* dst: the Result being appended to, sbh: the heap, done: the loop has    *)
(* ended, panic: an index was out of range, put: the number of             *)
(* putSortBlock calls so far.                                              *)
(***************************************************************************)
\* a filter that keeps the empty sortBlocks
mergeFilterKeepEmpty(src) == src

\* Skip empty sort blocks, since they cannot be passed to heap.Init.
mergeFilter(src) == SelectSeq(src, LAMBDA sb : Len(sb.Timestamps) # 0)

\* a scan that stops where it starts
scanIdxNextStuck(top, idxNext, tsNext) == idxNext

\* for top.Timestamps[idxNext] <= tsNext { idxNext++ }
\* -1 stands for an index out of range
RECURSIVE scanIdxNext(_, _, _)
scanIdxNext(top, idxNext, tsNext) ==
    IF idxNext >= Len(top.Timestamps)
    THEN -1
    ELSE IF top.Timestamps[idxNext + 1] <= tsNext
         THEN scanIdxNext(top, idxNext + 1, tsNext)
         ELSE idxNext

\* an idxNext that always takes the whole remainder of top
findIdxNextWholeBlock(top, tsNext) == Len(top.Timestamps)

\* the idxNext of one iteration of the main loop
findIdxNext(top, tsNext) ==
    LET idxNext == Len(top.Timestamps)
    IN  IF top.Timestamps[idxNext] > tsNext
        THEN scanIdxNext(top, top.NextIdx, tsNext)
        ELSE idxNext

\* an append that drops the first sample of the range
appendSamplesDropFirst(dst, top, from, to) ==
    [dst EXCEPT !.Timestamps = dst.Timestamps \o Slice(top.Timestamps, from + 1, to),
                !.Values = dst.Values \o Slice(top.Values, from + 1, to)]

\* dst.Timestamps = append(dst.Timestamps, top.Timestamps[from:to]...)
\* dst.Values = append(dst.Values, top.Values[from:to]...)
appendSamples(dst, top, from, to) ==
    [dst EXCEPT !.Timestamps = dst.Timestamps \o Slice(top.Timestamps, from, to),
                !.Values = dst.Values \o Slice(top.Values, from, to)]

\* one iteration of the for loop of mergeSortBlocks
mergeIter(st) ==
    LET top == st.sbh[1]
        sbh == heapPop(st.sbh)
    IN  IF Len(sbh) = 0
        THEN [st EXCEPT !.dst = appendSamples(st.dst, top, top.NextIdx,
                                              Len(top.Timestamps)),
                        !.sbh = sbh, !.done = TRUE, !.put = st.put + 1]
        ELSE LET sbNext == sbh[1]
                 tsNext == HeadTs(sbNext)
                 idxNext == findIdxNext(top, tsNext)
             IN  IF idxNext < 0
                 THEN [st EXCEPT !.sbh = sbh, !.done = TRUE, !.panic = TRUE]
                 ELSE IF idxNext < Len(top.Timestamps)
                      THEN [st EXCEPT
                              !.dst = appendSamples(st.dst, top, top.NextIdx, idxNext),
                              !.sbh = heapPush(sbh, [top EXCEPT !.NextIdx = idxNext])]
                      ELSE [st EXCEPT
                              !.dst = appendSamples(st.dst, top, top.NextIdx, idxNext),
                              !.sbh = sbh, !.put = st.put + 1]

\* the for loop, cut after fuel iterations (every iteration that appends a
\* sample is paid for by that sample, so fuel = 1 + number of samples is
\* never used up by a loop that makes progress)
RECURSIVE mergeLoop(_, _)
mergeLoop(st, fuel) ==
    IF st.done \/ fuel = 0 THEN st ELSE mergeLoop(mergeIter(st), fuel - 1)

RECURSIVE SumLen(_)
SumLen(sbs) ==
    IF Len(sbs) = 0 THEN 0 ELSE Len(sbs[1].Timestamps) + SumLen(Tail(sbs))

\* mergeSortBlocks up to the end of the for loop (before deduplication)
mergeHeapPass(dst, src) ==
    LET sbh == mergeFilter(src)
        st0 == [dst |-> dst, sbh |-> heapInit(sbh), done |-> FALSE,
                panic |-> FALSE, put |-> Len(src) - Len(sbh)]
    IN  IF Len(sbh) = 0
        THEN [st0 EXCEPT !.done = TRUE]
        ELSE mergeLoop(st0, SumLen(sbh) + 1)

\* storage.DeduplicateSamples: of adjacent samples with the same timestamp
\* one is kept (here the last one)
DeduplicateSamples(timestamps, values) ==
    LET n == Len(timestamps)
        kept == SelectSeq([k \in 1..n |-> k],
                          LAMBDA k : k = n \/ timestamps[k] # timestamps[k + 1])
    IN  [timestamps |-> [i \in 1..Len(kept) |-> timestamps[kept[i]]],
         values |-> [i \in 1..Len(kept) |-> values[kept[i]]]]

\* func mergeSortBlocks(dst *Result, sbh sortBlocksHeap)
mergeSortBlocks(dst, src) ==
    LET st == mergeHeapPass(dst, src)
        dd == DeduplicateSamples(st.dst.Timestamps, st.dst.Values)
    IN  IF Len(mergeFilter(src)) = 0
        THEN st.dst
        ELSE [st.dst EXCEPT !.Timestamps = dd.timestamps, !.Values = dd.values]

(***************************************************************************)
(* unpackWork and packedTimeseries.Unpack.  A packedTimeseries is          *)
(*   [metricName |-> [id, corrupt], brs |-> sequence of BlockRefs].        *)
(***************************************************************************)
\* dst.MetricName.Unmarshal(pts.metricName): Nil, or the parse error
UnmarshalMetricName(metricName) ==
    IF metricName.corrupt THEN "cannot unmarshal metricName" ELSE Nil

\* the for loop of (*unpackWork).unpack from item k on: the error sent on
\* upw.doneCh and upw.sbs
RECURSIVE unpackItems(_, _, _, _)
unpackItems(ws, k, sbs, fetchData) ==
    IF k > Len(ws)
    THEN [err |-> Nil, sbs |-> sbs]
    ELSE LET r == unpackFrom(getSortBlock, ws[k].br, ws[k].tr, fetchData)
         IN  IF r.err # Nil
             THEN [err |-> "cannot unpack block", sbs |-> sbs]
             ELSE unpackItems(ws, k + 1, Append(sbs, r.sb), fetchData)

\* func (upw *unpackWork) unpack()
unpack(upw) == unpackItems(upw.ws, 1, upw.sbs, upw.fetchData)

\* getUnpackWork() followed by upw.fetchData = fetchData
getUnpackWork(fetchData) == [ws |-> <<>>, fetchData |-> fetchData, sbs |-> <<>>]

\* a feeding loop that loses the block ref at which a unit is full
RECURSIVE feedUnpackWorkDropAtBorder(_, _, _, _, _, _)
feedUnpackWorkDropAtBorder(brs, k, upw, upws, tr, fetchData) ==
    IF k > Len(brs)
    THEN Append(upws, upw)
    ELSE LET item == [br |-> brs[k], tr |-> tr]
         IN  IF Len(upw.ws) >= unpackBatchSize
             THEN feedUnpackWorkDropAtBorder(brs, k + 1, getUnpackWork(fetchData),
                                             Append(upws, upw), tr, fetchData)
             ELSE feedUnpackWorkDropAtBorder(brs, k + 1,
                                             [upw EXCEPT !.ws = Append(upw.ws, item)],
                                             upws, tr, fetchData)

\* "Feed workers with work": the units enqueued on unpackWorkCh, in order,
\* for the block refs from k on; upw is the unit being filled
RECURSIVE feedUnpackWork(_, _, _, _, _, _)
feedUnpackWork(brs, k, upw, upws, tr, fetchData) ==
    IF k > Len(brs)
    THEN Append(upws, upw)
    ELSE LET item == [br |-> brs[k], tr |-> tr]
         IN  IF Len(upw.ws) >= unpackBatchSize
             THEN feedUnpackWork(brs, k + 1,
                                 [getUnpackWork(fetchData) EXCEPT !.ws = <<item>>],
                                 Append(upws, upw), tr, fetchData)
             ELSE feedUnpackWork(brs, k + 1,
                                 [upw EXCEPT !.ws = Append(upw.ws, item)],
                                 upws, tr, fetchData)

\* "Wait until work is complete": firstErr and the sortBlocks collected
\* from the units from k on
RECURSIVE collectUnpackWork(_, _, _, _)
collectUnpackWork(upws, k, firstErr, sbs) ==
    IF k > Len(upws)
    THEN [err |-> firstErr, sbs |-> sbs]
    ELSE LET r == unpack(upws[k])
             e == IF r.err # Nil /\ firstErr = Nil THEN r.err ELSE firstErr
         IN  collectUnpackWork(upws, k + 1, e,
                               IF e = Nil THEN sbs \o r.sbs ELSE sbs)

\* An Unpack under way in a series worker: upws are the unpackWorks sent so
\* far, done[n] is what the n-th has sent on its doneCh (<<>> while it has
\* not), k counts the doneChs received from, firstErr and sbs are those of
\* the waiting loop.
NoUnpack ==
    [upws |-> <<>>, done |-> <<>>, k |-> 0, firstErr |-> Nil, sbs |-> <<>>]

\* upws = append(upws, upw) for the unit sent on unpackWorkCh
unpackWorkSent(U, upw) ==
    [U EXCEPT !.upws = Append(@, upw), !.done = Append(@, <<>>)]

\* upw.unpack() of the n-th unit has ended with out = [err, sbs] and has
\* sent out.err on upw.doneCh
unpackWorkDone(U, n, out) ==
    [U EXCEPT !.upws[n].sbs = out.sbs, !.done[n] = <<out.err>>]

\* one iteration of "Wait until work is complete", on the unit after the
\* k-th: err := <-upw.doneCh, firstErr, and sbs or putSortBlock
unpackWorkReceived(U) ==
    LET n == U.k + 1
        err == U.done[n][1]
        e == IF err # Nil /\ U.firstErr = Nil THEN err ELSE U.firstErr
    IN  [U EXCEPT !.k = n,
                   !.firstErr = e,
                   !.sbs = IF e = Nil THEN @ \o U.upws[n].sbs ELSE @]

\* the end of Unpack, after the waiting loop: return firstErr, or
\* mergeSortBlocks(dst, sbs) and return nil.  The result holds the error
\* and dst, and for inspection the sortBlocks handed to mergeSortBlocks and
\* dst as the for loop of the merge left it
unpackMerge(dst, firstErr, sbs) ==
    IF firstErr # Nil
    THEN [err |-> firstErr, dst |-> dst, sbs |-> <<>>, pre |-> dst]
    ELSE [err |-> Nil,
          dst |-> mergeSortBlocks(dst, sbs),
          sbs |-> sbs,
          pre |-> mergeHeapPass(dst, sbs).dst]

\* One step of Unpack up to pts.brs = pts.brs[:0], U holding the units
\* sent before: the first step begins with dst.reset() and the metric
\* name, on whose error Unpack returns; every step sends the next unit on
\* unpackWorkCh (sent), and the last one empties pts.brs.
unpackFeed(pts, dst, tr, fetchData, U) ==
    LET first == Len(U.upws) = 0
        dst0 == ResultReset(dst)
        nameErr == UnmarshalMetricName(pts.metricName)
        upws == feedUnpackWork(pts.brs, 1, getUnpackWork(fetchData), <<>>,
                               tr, fetchData)
        n == Len(U.upws) + 1
        last == n = Len(upws)
    IN  IF first /\ nameErr # Nil
        THEN [err |-> nameErr, dst |-> dst0, U |-> U, brs |-> pts.brs,
              sent |-> FALSE, last |-> TRUE]
        ELSE [err |-> Nil,
              dst |-> IF first
                      THEN [dst0 EXCEPT !.MetricName = pts.metricName.id]
                      ELSE dst,
              U |-> unpackWorkSent(U, upws[n]),
              brs |-> IF last THEN <<>> ELSE pts.brs,
              sent |-> TRUE, last |-> last]

\* One step of Unpack from "Wait until work is complete" on: the receive
\* from the doneCh of the next unit and, after the last unit, the end of
\* Unpack
unpackCollect(dst, U) ==
    LET got == unpackWorkReceived(U)
    IN  IF got.k = Len(got.upws)
        THEN [last |-> TRUE, U |-> NoUnpack,
              ret |-> unpackMerge(dst, got.firstErr, got.sbs)]
        ELSE [last |-> FALSE, U |-> got,
              ret |-> [err |-> Nil, dst |-> dst, sbs |-> <<>>, pre |-> dst]]

\* func (pts *packedTimeseries) Unpack(dst, tr, fetchData) error
\* from its call to its return: the result holds the error, dst and
\* pts.brs, and sbs and pre of unpackMerge
Unpack(pts, dst, tr, fetchData) ==
    LET dst0 == ResultReset(dst)
        nameErr == UnmarshalMetricName(pts.metricName)
        dst1 == [dst0 EXCEPT !.MetricName = pts.metricName.id]
        upws == feedUnpackWork(pts.brs, 1, getUnpackWork(fetchData), <<>>,
                               tr, fetchData)
        got == collectUnpackWork(upws, 1, Nil, <<>>)
        ret == unpackMerge(dst1, got.err, got.sbs)
    IN  IF nameErr # Nil
        THEN [err |-> nameErr, dst |-> dst0, brs |-> pts.brs,
              sbs |-> <<>>, pre |-> dst0]
        ELSE [err |-> ret.err, dst |-> ret.dst, brs |-> <<>>,
              sbs |-> ret.sbs, pre |-> ret.pre]

\* a delivery rule that skips every empty Result
callbackDueNonEmptyOnly(rs, fetchData) == Len(rs.Timestamps) > 0

\* a delivery rule that delivers every Result
callbackDueAlways(rs, fetchData) == TRUE

\* if len(rs.Timestamps) > 0 || !rss.fetchData { tsw.f(&rs, workerID) }
callbackDue(rs, fetchData) == Len(rs.Timestamps) > 0 \/ ~fetchData

(***************************************************************************)
(* The reset policy of the worker's rs.                                    *)
(***************************************************************************)
\* fasttime.UnixTimestamp() when the query is processed
StartTime == 1600000000

\* cap(rs.Values) a huge series of an earlier query has left a worker
\* with: 2 * 1024 * 1024 values
SpikeCap == 2097152

\* the sizes in bytes in which the Go runtime allocates small objects
\* (class_to_size of runtime/sizeclasses.go)
class_to_size ==
    <<8, 16, 24, 32, 48, 64, 80, 96, 112, 128, 144, 160, 176, 192, 208, 224,
      240, 256, 288, 320, 352, 384, 416, 448, 480, 512, 576, 640, 704, 768,
      896, 1024, 1152, 1280, 1408, 1536, 1792, 2048, 2304, 2688, 3072, 3200,
      3456, 4096, 4864, 5376, 6144, 6528, 6784, 6912, 8192, 9472, 9728,
      10240, 10880, 12288, 13568, 14336, 16384, 18432, 19072, 20480, 21760,
      24576, 27264, 28672, 32768>>

\* runtime.roundupsize for an object without pointers: the bytes the
\* allocator returns for a request of size bytes, the smallest size class
\* that holds them or, above 32768 bytes, whole pages of 8192 bytes
roundupsize(size) ==
    IF size <= 32768
    THEN class_to_size[CHOOSE i \in DOMAIN class_to_size :
                           /\ class_to_size[i] >= size
                           /\ \A j \in 1..(i - 1) : class_to_size[j] < size]
    ELSE ((size + 8191) \div 8192) * 8192

\* for { newcap += (newcap + 3*threshold) >> 2; if newcap >= newLen
\* { break } } of runtime.nextslicecap, threshold = 256
RECURSIVE nextslicecapLoop(_, _)
nextslicecapLoop(newcap, newLen) ==
    IF newcap + (newcap + 3 * 256) \div 4 >= newLen
    THEN newcap + (newcap + 3 * 256) \div 4
    ELSE nextslicecapLoop(newcap + (newcap + 3 * 256) \div 4, newLen)

\* runtime.nextslicecap: the capacity growslice asks for when newLen
\* values do not fit into oldCap
nextslicecap(newLen, oldCap) ==
    IF newLen > oldCap + oldCap
    THEN newLen
    ELSE IF oldCap < 256
         THEN oldCap + oldCap
         ELSE nextslicecapLoop(oldCap, newLen)

\* cap(dst.Values) after dst.Values = append(dst.Values, vs...) with
\* len(dst.Values) = len, cap(dst.Values) = cap and len(vs) = k: the
\* capacity stays if the values fit, else runtime.growslice allocates
\* nextslicecap values of 8 bytes, rounded up to what the allocator returns
appendCap(cap, len, k) ==
    IF len + k <= cap
    THEN cap
    ELSE roundupsize(nextslicecap(len + k, cap) * 8) \div 8

\* cap(dst.Values) after the appends of the for loop of mergeSortBlocks
\* from the state st on, cap being the capacity at st
RECURSIVE mergeLoopCap(_, _, _)
mergeLoopCap(st, fuel, cap) ==
    IF st.done \/ fuel = 0
    THEN cap
    ELSE mergeLoopCap(mergeIter(st), fuel - 1,
                      appendCap(cap, Len(st.dst.Values),
                                Len(mergeIter(st).dst.Values) - Len(st.dst.Values)))

\* cap(dst.Values) after mergeSortBlocks(dst, src) when it was cap before:
\* storage.DeduplicateSamples returns slices of the arrays it is given
mergeSortBlocksCap(cap, dst, src) ==
    LET sbh == mergeFilter(src)
    IN  IF Len(sbh) = 0
        THEN cap
        ELSE mergeLoopCap([dst |-> dst, sbh |-> heapInit(sbh), done |-> FALSE,
                           panic |-> FALSE, put |-> Len(src) - Len(sbh)],
                          SumLen(sbh) + 1, cap)

\* a policy that resets as soon as 10 seconds have passed
resetDueAtLeast(len, cap, currentTime, rsLastResetTime) ==
    cap > 1024 * 1024 /\ 4 * len < cap /\ currentTime - rsLastResetTime >= 10

\* cap(rs.Values) > 1024*1024 && 4*len(rs.Values) < cap(rs.Values) &&
\* currentTime-rsLastResetTime > 10
resetDue(len, cap, currentTime, rsLastResetTime) ==
    cap > 1024 * 1024 /\ 4 * len < cap /\ currentTime - rsLastResetTime > 10

\* What a series worker holds when a query reaches it: cap(rs.Values) and
\* rsLastResetTime as the program start left them, or the buffer of an
\* earlier huge series, taken after rs was replaced at StartTime
WorkerStarts ==
    {[cap |-> 0, rsLastResetTime |-> 0],
     [cap |-> SpikeCap, rsLastResetTime |-> StartTime]}

\* the values of fasttime.UnixTimestamp() a worker reads after a series
FinishTimes == {StartTime + 10, StartTime + 11}

\* currentTime := fasttime.UnixTimestamp() and the if that follows, on the
\* worker me = [rs, cap, rsLastResetTime, ...]: rs = Result{} and
\* rsLastResetTime = currentTime when the reset is due
resetPolicy(me, currentTime) ==
    IF resetDue(Len(me.rs.Values), me.cap, currentTime, me.rsLastResetTime)
    THEN [me EXCEPT !.rs = EmptyResult, !.cap = 0, !.rsLastResetTime = currentTime]
    ELSE me

(***************************************************************************)
(* State.                                                                  *)
(***************************************************************************)
VARIABLES
    \* one series taken through Unpack and delivery by one worker
    mpts,       \* the packedTimeseries
    mstored,    \* pts.brs as it was when Unpack was entered
    mtr,        \* rss.tr
    mfetchData, \* rss.fetchData
    mpc,        \* "queued", "collect", "unpacked", "failed", "done"
    mup,        \* the Unpack under way
    merr,       \* the error Unpack returned
    msbs,       \* the sortBlocks handed to mergeSortBlocks
    mpre,       \* dst when the for loop of mergeSortBlocks has ended
    mrs,        \* the worker's rs
    mcb,        \* whether the callback was called, and the Result passed
    \* one Results and the series worker pool
    rss,              \* the Results
    ss,               \* the storage.Search rss.sr points to, and ssPool
    deadlineExceeded, \* rss.deadline.Exceeded()
    timeseriesWorkCh, \* the channel, a sequence of indices into tsws
    tsws,             \* the timeseriesWork units made by RunParallel
    caller,           \* the goroutine that calls Cancel or RunParallel
    worker,           \* the timeseriesWorker goroutines
    calls,            \* the invocations of the callback f, in order
    perQueryRowsProcessed, \* the updates of the two histograms
    perQuerySeriesProcessed

VARIABLES
    \* several Results on the shared pools of series workers and unpack workers
    handles,      \* the Results of each query, with its deadline
    searches,     \* the storage.Search of each query, and the reads through it
    callers,      \* the goroutine of each query that calls Len, Cancel, RunParallel
    works,        \* every timeseriesWork made by a RunParallel
    workCh,       \* timeseriesWorkCh, a sequence of indices into works
    workers,      \* the timeseriesWorker goroutines, with their unpackWorks
    unpackWorkCh, \* the channel of unpackWorks, as (worker, index) pairs
    unpackers,    \* the unpackWorker goroutines
    invocations,  \* the invocations of the callbacks, in order of their start
    \* one call of ProcessSearchQuery
    psq,          \* its arguments, its locals, its position and what it returned
    vmstorage,    \* vmstorage.WG and what the storage holds for the search
    ssPool,       \* the storage.Search that getStorageSearch hands out
    \* one series unpacked with its blocks in another order
    reordered,    \* the blocks as stored and as unpacked, and the Result
    \* one series worker and its reusable Result
    rsWorker,     \* rs, rsLastResetTime, the clock, the last callback and check
    \* one call of GetLabelEntries
    labelq,       \* the deadline, what the storage holds and what was returned
    \* one Unpack with the unpack workers and the two pools
    unpacking,    \* the units, the sortBlocks, the pools and the caller's position
    \* one mergeSortBlocks, an iteration of its loop at a time
    merging,      \* the sortBlocks, the heap, dst and the position
    \* one RunParallel with the accesses to tsw.rowsProcessed as steps
    tally,        \* the units, the caller, the workers and the histogram
    \* the goroutines and the channels of several RunParallels
    flow          \* the callers, the workers, the channels and the doneChs

mvars == <<mpts, mstored, mtr, mfetchData, mpc, mup, merr, msbs, mpre, mrs, mcb>>

cvars == <<rss, ss, deadlineExceeded, timeseriesWorkCh, tsws, caller, worker,
           calls, perQueryRowsProcessed, perQuerySeriesProcessed>>

pvars == <<handles, searches, callers, works, workCh, workers, unpackWorkCh,
           unpackers, invocations>>

qvars == <<psq, vmstorage, ssPool>>

ovars == <<reordered>>

rvars == <<rsWorker>>

lvars == <<labelq>>

uvars == <<unpacking>>

hvars == <<merging>>

tvars == <<tally>>

fvars == <<flow>>

vars == <<mvars, cvars, pvars, qvars, ovars, rvars, lvars, uvars, hvars, tvars, fvars>>

\* what the actions of SpecMerge, of Spec, of the pool of several Results
\* and of ProcessSearchQuery leave alone
restOfMerge == <<cvars, pvars, qvars, ovars, rvars, lvars, uvars, hvars, tvars, fvars>>
restOfSpec == <<mvars, pvars, qvars, ovars, rvars, lvars, uvars, hvars, tvars, fvars>>
restOfPool == <<mvars, cvars, qvars, ovars, rvars, lvars, uvars, hvars, tvars, fvars>>
restOfQuery == <<mvars, cvars, pvars, ovars, rvars, lvars, uvars, hvars, tvars, fvars>>
restOfOrder == <<mvars, cvars, pvars, qvars, rvars, lvars, uvars, hvars, tvars, fvars>>
restOfReset == <<mvars, cvars, pvars, qvars, ovars, lvars, uvars, hvars, tvars, fvars>>
restOfLabels == <<mvars, cvars, pvars, qvars, ovars, rvars, uvars, hvars, tvars, fvars>>
restOfUnpack == <<mvars, cvars, pvars, qvars, ovars, rvars, lvars, hvars, tvars, fvars>>
restOfHeap == <<mvars, cvars, pvars, qvars, ovars, rvars, lvars, uvars, tvars, fvars>>
restOfRows == <<mvars, cvars, pvars, qvars, ovars, rvars, lvars, uvars, hvars, fvars>>
restOfFlow == <<mvars, cvars, pvars, qvars, ovars, rvars, lvars, uvars, hvars, tvars>>

\* the Results, the callers and the series workers of SpecPool
hdvars == <<handles, searches, callers, works, workCh, workers, invocations>>

\* what the steps of Unpack and of the unpack workers leave alone under
\* SpecMerge, Spec, SpecOrder and SpecRows
restOfMergeUnpack == <<cvars, hdvars, qvars, ovars, rvars, lvars, uvars, hvars, tvars, fvars>>
restOfSpecUnpack == <<mvars, hdvars, qvars, ovars, rvars, lvars, uvars, hvars, tvars, fvars>>
restOfOrderUnpack == <<mvars, cvars, hdvars, qvars, rvars, lvars, uvars, hvars, tvars, fvars>>
restOfRowsUnpack == <<mvars, cvars, hdvars, qvars, ovars, rvars, lvars, uvars, hvars, fvars>>

WorkerIDs == 0..(gomaxprocs - 1)

(***************************************************************************)
(* Inputs: stored blocks with non-decreasing timestamps.                   *)
(***************************************************************************)
\* the non-decreasing timestamp sequences of length n over 1..MaxTs
SortedTimestamps(n) == {s \in [1..n -> 1..MaxTs] : IsNonDecreasing(s)}

\* the lists of at most k timestamp sequences with at most budget
\* timestamps in all
RECURSIVE TimestampLists(_, _)
TimestampLists(k, budget) ==
    IF k = 0
    THEN {<<>>}
    ELSE {<<>>} \cup
         UNION {{<<s>> \o rest : rest \in TimestampLists(k - 1, budget - Len(s))} :
                s \in UNION {SortedTimestamps(n) : n \in 0..budget}}

\* the stored block at position n of a series: the raw value of row k is
\* 10 * n + k and the scale is n % 2, so that every sample of the series
\* has its own value
StoredBlock(n, timestamps) ==
    [timestamps |-> timestamps,
     values |-> [k \in 1..Len(timestamps) |-> 10 * n + k],
     scale |-> n % 2,
     corrupt |-> FALSE]

\* the time ranges of a query, MinTimestamp <= MaxTimestamp: they cut off
\* nothing, the smallest timestamp, the largest timestamp, or both
TimeRanges ==
    {t \in [MinTimestamp : 1..2, MaxTimestamp : (MaxTs - 1)..MaxTs] :
        t.MinTimestamp <= t.MaxTimestamp}

\* the state of the worker pool part while one series is examined alone
IdlePool ==
    /\ rss = [tr |-> [MinTimestamp |-> 1, MaxTimestamp |-> 1],
              fetchData |-> FALSE, packedTimeseries |-> <<>>, sr |-> Nil]
    /\ ss = [closes |-> 0, pooled |-> 0]
    /\ deadlineExceeded = FALSE
    /\ timeseriesWorkCh = <<>>
    /\ tsws = <<>>
    /\ caller = [pc |-> "none", i |-> 0, firstErr |-> NilErr,
                 rowsProcessedTotal |-> 0, ret |-> NilErr]
    /\ worker = [w \in WorkerIDs |->
                    [pc |-> "idle", tsw |-> 0, rs |-> EmptyResult, up |-> NoUnpack,
                     cap |-> 0, rsLastResetTime |-> 0]]
    /\ calls = <<>>
    /\ perQueryRowsProcessed = <<>>
    /\ perQuerySeriesProcessed = <<>>

\* the Results of SpecPool while they are not examined
IdleResults ==
    /\ handles = <<>>
    /\ searches = <<>>
    /\ callers = <<>>
    /\ works = <<>>
    /\ workCh = <<>>
    /\ workers = <<>>
    /\ invocations = <<>>

\* for i := 0; i < gomaxprocs; i++ { go unpackWorker() }: every unpack
\* worker waits on the empty unpackWorkCh
UnpackWorkersStarted ==
    /\ unpackWorkCh = <<>>
    /\ unpackers = [u \in WorkerIDs |-> [pc |-> "idle", w |-> 0, n |-> 0]]

\* the state of the pools of several Results while they are not examined
IdleHandles ==
    /\ IdleResults
    /\ unpackWorkCh = <<>>
    /\ unpackers = <<>>

\* GetLabelEntries is not called, and no Unpack, no merge and no counting
\* of rows is under way
IdleStages ==
    /\ labelq = <<>>
    /\ unpacking = <<>>
    /\ merging = <<>>
    /\ tally = <<>>
    /\ flow = <<>>

\* the state of ProcessSearchQuery and of the reordered series while they
\* are not examined
IdleQuery ==
    /\ psq = <<>>
    /\ vmstorage = <<>>
    /\ ssPool = <<>>
    /\ reordered = <<>>
    /\ rsWorker = <<>>
    /\ IdleStages

\* unpack worker u receives an unpackWork from unpackWorkCh: the unit is
\* named by the series worker w that sent it and its index n among the
\* units of that worker's Unpack
UnpackWorkerDequeue(u) ==
    /\ unpackers[u].pc = "idle"
    /\ Len(unpackWorkCh) > 0
    /\ unpackers' = [unpackers EXCEPT ![u] = [pc |-> "unpack",
                                               w |-> unpackWorkCh[1].w,
                                               n |-> unpackWorkCh[1].n]]
    /\ unpackWorkCh' = Tail(unpackWorkCh)
    /\ UNCHANGED hdvars
    /\ UNCHANGED restOfPool

(***************************************************************************)
(* SpecMerge: one series, drawn from the bounded inputs, is unpacked,      *)
(* merged and delivered as the worker does it.                             *)
(***************************************************************************)
InitMerge ==
    /\ \E tsl \in TimestampLists(MaxBlocks, MaxSamples) :
           mpts = [metricName |-> [id |-> 1, corrupt |-> FALSE],
                   brs |-> [n \in 1..Len(tsl) |-> StoredBlock(n, tsl[n])]]
    /\ mstored = mpts.brs
    /\ mtr \in TimeRanges
    /\ mfetchData \in BOOLEAN
    /\ mpc = "queued"
    /\ mup = NoUnpack
    /\ merr = Nil
    /\ msbs = <<>>
    /\ mpre = EmptyResult
    /\ mrs = EmptyResult
    /\ mcb = [called |-> FALSE, rs |-> EmptyResult]
    /\ IdlePool
    /\ IdleResults
    /\ UnpackWorkersStarted
    /\ IdleQuery

\* the worker in tsw.pts.Unpack(&rs, rss.tr, rss.fetchData), up to
\* pts.brs = pts.brs[:0]: a step sends one unit on unpackWorkCh, waiting
\* while the channel is full; on an error of the metric name the worker
\* sends "error during time series unpacking" and goes on with the next
\* unit without calling the callback
MUnpackFeed ==
    /\ mpc = "queued"
    /\ LET r == unpackFeed(mpts, mrs, mtr, mfetchData, mup)
       IN  /\ r.sent => Len(unpackWorkCh) < unpackWorkChCap
           /\ unpackWorkCh' = IF r.sent
                              THEN Append(unpackWorkCh,
                                          [w |-> 0, n |-> Len(r.U.upws)])
                              ELSE unpackWorkCh
           /\ mup' = r.U
           /\ mrs' = r.dst
           /\ mpts' = [mpts EXCEPT !.brs = r.brs]
           /\ merr' = r.err
           /\ mpc' = IF r.err # Nil THEN "failed"
                                     ELSE IF r.last THEN "collect" ELSE mpc
    /\ UNCHANGED <<mstored, mtr, mfetchData, msbs, mpre, mcb, unpackers>>
    /\ UNCHANGED restOfMergeUnpack

\* unpack worker u runs upw.unpack() and sends on upw.doneCh
MUnpackWork(u) ==
    /\ unpackers[u].pc = "unpack"
    /\ mup' = unpackWorkDone(mup, unpackers[u].n, unpack(mup.upws[unpackers[u].n]))
    /\ unpackers' = [unpackers EXCEPT ![u].pc = "idle"]
    /\ UNCHANGED <<mpts, mstored, mtr, mfetchData, mpc, merr, msbs, mpre, mrs,
                   mcb, unpackWorkCh>>
    /\ UNCHANGED restOfMergeUnpack

\* the worker in the waiting loop of Unpack: a step receives from the
\* doneCh of the next unit; after the last one Unpack returns the first
\* error, on which the worker sends it and goes on with the next unit, or
\* merges the sortBlocks into rs
MUnpackCollect ==
    /\ mpc = "collect"
    /\ mup.done[mup.k + 1] # <<>>
    /\ \E r \in {unpackCollect(mrs, mup)} :
           /\ mup' = r.U
           /\ mrs' = r.ret.dst
           /\ msbs' = r.ret.sbs
           /\ mpre' = r.ret.pre
           /\ merr' = r.ret.err
           /\ mpc' = IF ~r.last THEN mpc
                                ELSE IF r.ret.err # Nil THEN "failed" ELSE "unpacked"
    /\ UNCHANGED <<mpts, mstored, mtr, mfetchData, mcb, unpackWorkCh, unpackers>>
    /\ UNCHANGED restOfMergeUnpack

\* if len(rs.Timestamps) > 0 || !rss.fetchData { tsw.f(&rs, workerID) }
MDeliver ==
    /\ mpc = "unpacked"
    /\ mcb' = IF callbackDue(mrs, mfetchData)
              THEN [called |-> TRUE, rs |-> mrs]
              ELSE mcb
    /\ mpc' = "done"
    /\ UNCHANGED <<mpts, mstored, mtr, mfetchData, mup, merr, msbs, mpre, mrs>>
    /\ UNCHANGED restOfMerge

NextMerge ==
    \/ MUnpackFeed
    \/ \E u \in WorkerIDs : UnpackWorkerDequeue(u)
    \/ \E u \in WorkerIDs : MUnpackWork(u)
    \/ MUnpackCollect
    \/ MDeliver

SpecMerge == InitMerge /\ [][NextMerge]_vars

(***************************************************************************)
(* Spec: one Results, as ProcessSearchQuery returned it, is cancelled or   *)
(* run by RunParallel on the pool of gomaxprocs series workers, while the  *)
(* deadline may pass at any moment.                                        *)
(***************************************************************************)
\* rss.tr of the query
QueryRange == [MinTimestamp |-> 2, MaxTimestamp |-> 3]

\* the series a query can hold, by what processing them ends in under
\* QueryRange: samples in range in two overlapping blocks; a block wholly
\* outside the range; a block whose payload does not decode; a metric name
\* that does not parse
SeriesOfKind(kind, id) ==
    CASE kind = "data" ->
           [metricName |-> [id |-> id, corrupt |-> FALSE],
            brs |-> <<StoredBlock(1, <<1, 2>>), StoredBlock(2, <<2, 3>>)>>]
      [] kind = "outside" ->
           [metricName |-> [id |-> id, corrupt |-> FALSE],
            brs |-> <<StoredBlock(1, <<1>>)>>]
      [] kind = "badblock" ->
           [metricName |-> [id |-> id, corrupt |-> FALSE],
            brs |-> <<StoredBlock(1, <<2>>),
                      [StoredBlock(2, <<3>>) EXCEPT !.corrupt = TRUE]>>]
      [] OTHER ->
           [metricName |-> [id |-> id, corrupt |-> TRUE],
            brs |-> <<StoredBlock(1, <<2>>)>>]

SeriesKinds == {"data", "outside", "badblock", "badname"}

\* the sequences of at most n series kinds
KindLists(n) == UNION {[1..k -> SeriesKinds] : k \in 0..n}

\* the merge part of the state while the pool is examined
IdleMerge ==
    /\ mpts = [metricName |-> [id |-> 1, corrupt |-> FALSE], brs |-> <<>>]
    /\ mstored = <<>>
    /\ mtr = QueryRange
    /\ mfetchData = FALSE
    /\ mpc = "none"
    /\ mup = NoUnpack
    /\ merr = Nil
    /\ msbs = <<>>
    /\ mpre = EmptyResult
    /\ mrs = EmptyResult
    /\ mcb = [called |-> FALSE, rs |-> EmptyResult]

\* the state when ProcessSearchQuery has returned rss: the series are in
\* rss.packedTimeseries, rss.sr is the open search, the deadline was not
\* exceeded at its last check, every series worker waits on
\* timeseriesWorkCh with the empty rs a failed Unpack leaves, and every
\* unpack worker waits on unpackWorkCh
Init ==
    /\ \E kinds \in KindLists(MaxSeries), fetchData \in BOOLEAN :
           rss = [tr |-> QueryRange,
                  fetchData |-> fetchData,
                  packedTimeseries |->
                      [k \in 1..Len(kinds) |-> SeriesOfKind(kinds[k], k)],
                  sr |-> "sr"]
    /\ ss = [closes |-> 0, pooled |-> 0]
    /\ deadlineExceeded = FALSE
    /\ timeseriesWorkCh = <<>>
    /\ tsws = <<>>
    /\ caller = [pc |-> "ready", i |-> 0, firstErr |-> NilErr,
                 rowsProcessedTotal |-> 0, ret |-> NilErr]
    /\ \E start \in [WorkerIDs -> WorkerStarts] :
           worker = [w \in WorkerIDs |->
                        [pc |-> "idle", tsw |-> 0, rs |-> EmptyResult,
                         up |-> NoUnpack, cap |-> start[w].cap,
                         rsLastResetTime |-> start[w].rsLastResetTime]]
    /\ calls = <<>>
    /\ perQueryRowsProcessed = <<>>
    /\ perQuerySeriesProcessed = <<>>
    /\ IdleMerge
    /\ IdleResults
    /\ UnpackWorkersStarted
    /\ IdleQuery

\* the deadline passes
DeadlineExpires ==
    /\ ~deadlineExceeded
    /\ deadlineExceeded' = TRUE
    /\ UNCHANGED <<rss, ss, timeseriesWorkCh, tsws, caller, worker, calls,
                   perQueryRowsProcessed, perQuerySeriesProcessed>>
    /\ UNCHANGED restOfSpec

\* putStorageSearch(sr): sr.MustClose() and ssPool.Put(sr)
putStorageSearch(s) == [s EXCEPT !.closes = @ + 1, !.pooled = @ + 1]

\* a mustClose that drops the search without closing and pooling it
mustCloseLeak ==
    /\ ss' = ss
    /\ rss' = [rss EXCEPT !.sr = Nil]

\* func (rss *Results) mustClose()
mustClose ==
    /\ ss' = putStorageSearch(ss)
    /\ rss' = [rss EXCEPT !.sr = Nil]

\* func (rss *Results) Cancel()
Cancel ==
    /\ caller.pc = "ready"
    /\ mustClose
    /\ caller' = [caller EXCEPT !.pc = "cancelled"]
    /\ UNCHANGED <<deadlineExceeded, timeseriesWorkCh, tsws, worker, calls,
                   perQueryRowsProcessed, perQuerySeriesProcessed>>
    /\ UNCHANGED restOfSpec

\* RunParallel is called: defer rss.mustClose() is registered and
\* tsws := make([]*timeseriesWork, len(rss.packedTimeseries))
RunParallelCall ==
    /\ caller.pc = "ready"
    /\ caller' = [caller EXCEPT !.pc = "feed", !.i = 0]
    /\ UNCHANGED <<rss, ss, deadlineExceeded, timeseriesWorkCh, tsws, worker,
                   calls, perQueryRowsProcessed, perQuerySeriesProcessed>>
    /\ UNCHANGED restOfSpec

\* &timeseriesWork{rss, pts, f, doneCh: make(chan error, 1)}.  Kept for
\* inspection: orig, the series as it was enqueued; sent, every value sent
\* on doneCh; sentAt, how many units had sent before this one did;
\* takenBy, every worker that received the unit; late, whether the
\* deadline was exceeded when it was received; takenAt, how many units
\* had been received before this one was
NewTimeseriesWork(pts) ==
    [pts |-> pts, doneCh |-> <<>>, rowsProcessed |-> 0,
     orig |-> pts, sent |-> <<>>, sentAt |-> 0, takenBy |-> <<>>,
     late |-> <<>>, takenAt |-> 0]

\* a feeding loop whose units all point to the loop variable, which holds
\* the last series when the workers read it
FeedLoopVarAlias ==
    /\ caller.pc = "feed"
    /\ caller.i < Len(rss.packedTimeseries)
    /\ Len(timeseriesWorkCh) < timeseriesWorkChCap
    /\ tsws' = Append(tsws, NewTimeseriesWork(
                                rss.packedTimeseries[Len(rss.packedTimeseries)]))
    /\ timeseriesWorkCh' = Append(timeseriesWorkCh, Len(tsws) + 1)
    /\ caller' = [caller EXCEPT !.i = @ + 1]
    /\ UNCHANGED <<rss, ss, deadlineExceeded, worker, calls,
                   perQueryRowsProcessed, perQuerySeriesProcessed>>
    /\ UNCHANGED restOfSpec

\* one iteration of "Feed workers with work": timeseriesWorkCh <- tsw
\* blocks while the channel is full
Feed ==
    /\ caller.pc = "feed"
    /\ caller.i < Len(rss.packedTimeseries)
    /\ Len(timeseriesWorkCh) < timeseriesWorkChCap
    /\ tsws' = Append(tsws, NewTimeseriesWork(rss.packedTimeseries[caller.i + 1]))
    /\ timeseriesWorkCh' = Append(timeseriesWorkCh, Len(tsws) + 1)
    /\ caller' = [caller EXCEPT !.i = @ + 1]
    /\ UNCHANGED <<rss, ss, deadlineExceeded, worker, calls,
                   perQueryRowsProcessed, perQuerySeriesProcessed>>
    /\ UNCHANGED restOfSpec

\* the feeding loop has ended:
\* seriesProcessedTotal := len(rss.packedTimeseries)
\* rss.packedTimeseries = rss.packedTimeseries[:0]
FeedDone ==
    /\ caller.pc = "feed"
    /\ caller.i = Len(rss.packedTimeseries)
    /\ rss' = [rss EXCEPT !.packedTimeseries = <<>>]
    /\ caller' = [caller EXCEPT !.pc = "wait", !.i = 0, !.firstErr = NilErr,
                                !.rowsProcessedTotal = 0]
    /\ UNCHANGED <<ss, deadlineExceeded, timeseriesWorkCh, tsws, worker, calls,
                   perQueryRowsProcessed, perQuerySeriesProcessed>>
    /\ UNCHANGED restOfSpec

\* an error rule that keeps the last error instead of the first
keepErrLast(firstErr, err) == IF err # NilErr THEN err ELSE firstErr

\* if err := <-tsw.doneCh; err != nil && firstErr == nil { firstErr = err }
keepErr(firstErr, err) ==
    IF err # NilErr /\ firstErr = NilErr THEN err ELSE firstErr

\* one iteration of "Wait until work is complete": <-tsw.doneCh blocks
\* until the unit's worker has sent
Await ==
    /\ caller.pc = "wait"
    /\ caller.i < Len(tsws)
    /\ LET k == caller.i + 1
       IN  /\ Len(tsws[k].doneCh) > 0
           /\ caller' = [caller EXCEPT
                           !.i = @ + 1,
                           !.firstErr = keepErr(@, tsws[k].doneCh[1]),
                           !.rowsProcessedTotal = @ + tsws[k].rowsProcessed]
           /\ tsws' = [tsws EXCEPT ![k].doneCh = Tail(@)]
    /\ UNCHANGED <<rss, ss, deadlineExceeded, timeseriesWorkCh, worker, calls,
                   perQueryRowsProcessed, perQuerySeriesProcessed>>
    /\ UNCHANGED restOfSpec

\* the waiting loop has ended: the histograms are updated, RunParallel
\* returns firstErr and the deferred rss.mustClose() runs
RunParallelReturn ==
    /\ caller.pc = "wait"
    /\ caller.i = Len(tsws)
    /\ perQueryRowsProcessed' = Append(perQueryRowsProcessed, caller.rowsProcessedTotal)
    /\ perQuerySeriesProcessed' = Append(perQuerySeriesProcessed, Len(tsws))
    /\ mustClose
    /\ caller' = [caller EXCEPT !.pc = "returned", !.ret = caller.firstErr]
    /\ UNCHANGED <<deadlineExceeded, timeseriesWorkCh, tsws, worker, calls>>
    /\ UNCHANGED restOfSpec

TimeoutErr(k) ==
    [msg |-> "timeout exceeded during query execution", cause |-> Nil, tsw |-> k]

UnpackErr(k, err) ==
    [msg |-> "error during time series unpacking", cause |-> err, tsw |-> k]

\* tsw.doneCh <- err on the unit k
SendDone(units, k, err) ==
    [units EXCEPT ![k].doneCh = Append(@, err),
                  ![k].sent = Append(@, err),
                  ![k].sentAt = Cardinality({n \in 1..Len(units) :
                                               units[n].sent # <<>>})]

\* a series worker that does not look at the deadline
WorkerDequeueNoDeadline(w) ==
    /\ worker[w].pc = "idle"
    /\ Len(timeseriesWorkCh) > 0
    /\ LET k == timeseriesWorkCh[1]
       IN  /\ timeseriesWorkCh' = Tail(timeseriesWorkCh)
           /\ tsws' = [tsws EXCEPT
                         ![k].takenBy = Append(@, w),
                         ![k].late = Append(@, deadlineExceeded),
                         ![k].takenAt = Cardinality({n \in 1..Len(tsws) :
                                                       tsws[n].takenBy # <<>>})]
           /\ worker' = [worker EXCEPT ![w].pc = "unpack", ![w].tsw = k]
    /\ UNCHANGED <<rss, ss, deadlineExceeded, caller, calls,
                   perQueryRowsProcessed, perQuerySeriesProcessed>>
    /\ UNCHANGED restOfSpec

\* worker w receives a unit from timeseriesWorkCh and checks the deadline:
\* if it is exceeded the worker sends the timeout error and goes on with
\* the next unit
WorkerDequeue(w) ==
    /\ worker[w].pc = "idle"
    /\ Len(timeseriesWorkCh) > 0
    /\ LET k == timeseriesWorkCh[1]
           taken == [tsws EXCEPT
                       ![k].takenBy = Append(@, w),
                       ![k].late = Append(@, deadlineExceeded),
                       ![k].takenAt = Cardinality({n \in 1..Len(tsws) :
                                                     tsws[n].takenBy # <<>>})]
       IN  /\ timeseriesWorkCh' = Tail(timeseriesWorkCh)
           /\ IF deadlineExceeded
              THEN /\ Len(tsws[k].doneCh) < 1
                   /\ tsws' = SendDone(taken, k, TimeoutErr(k))
                   /\ worker' = [worker EXCEPT ![w].tsw = k]
              ELSE /\ tsws' = taken
                   /\ worker' = [worker EXCEPT ![w].pc = "unpack", ![w].tsw = k]
    /\ UNCHANGED <<rss, ss, deadlineExceeded, caller, calls,
                   perQueryRowsProcessed, perQuerySeriesProcessed>>
    /\ UNCHANGED restOfSpec

\* worker w in tsw.pts.Unpack(&rs, rss.tr, rss.fetchData), up to
\* pts.brs = pts.brs[:0]: a step sends one unit on unpackWorkCh, waiting
\* while the channel is full; on an error of the metric name the worker
\* sends the error and goes on with the next unit.  tsw.pts points into
\* rss.packedTimeseries, so that pts.brs = pts.brs[:0] is seen there while
\* the slice still has its length
WorkerUnpackFeed(w) ==
    /\ worker[w].pc = "unpack"
    /\ LET k == worker[w].tsw
           r == unpackFeed(tsws[k].pts, worker[w].rs, rss.tr, rss.fetchData,
                           worker[w].up)
           drained == [tsws EXCEPT ![k].pts.brs = r.brs]
       IN  /\ r.sent => Len(unpackWorkCh) < unpackWorkChCap
           /\ unpackWorkCh' = IF r.sent
                              THEN Append(unpackWorkCh,
                                          [w |-> w, n |-> Len(r.U.upws)])
                              ELSE unpackWorkCh
           /\ rss' = IF k <= Len(rss.packedTimeseries)
                     THEN [rss EXCEPT !.packedTimeseries[k].brs = r.brs]
                     ELSE rss
           /\ IF r.err # Nil
              THEN /\ Len(tsws[k].doneCh) < 1
                   /\ tsws' = SendDone(drained, k, UnpackErr(k, r.err))
                   /\ worker' = [worker EXCEPT ![w].pc = "idle", ![w].rs = r.dst]
              ELSE /\ tsws' = drained
                   /\ worker' = [worker EXCEPT
                                    ![w].pc = IF r.last THEN "collect" ELSE @,
                                    ![w].rs = r.dst,
                                    ![w].up = r.U]
    /\ UNCHANGED <<ss, deadlineExceeded, timeseriesWorkCh, caller, calls,
                   perQueryRowsProcessed, perQuerySeriesProcessed, unpackers>>
    /\ UNCHANGED restOfSpecUnpack

\* unpack worker u runs upw.unpack() and sends on upw.doneCh
WorkerUnpackWork(u) ==
    /\ unpackers[u].pc = "unpack"
    /\ LET w == unpackers[u].w
           n == unpackers[u].n
       IN  worker' = [worker EXCEPT
                        ![w].up = unpackWorkDone(@, n, unpack(@.upws[n]))]
    /\ unpackers' = [unpackers EXCEPT ![u].pc = "idle"]
    /\ UNCHANGED <<rss, ss, deadlineExceeded, timeseriesWorkCh, tsws, caller,
                   calls, perQueryRowsProcessed, perQuerySeriesProcessed,
                   unpackWorkCh>>
    /\ UNCHANGED restOfSpecUnpack

\* worker w in the waiting loop of Unpack: a step receives from the
\* doneCh of the next unit.  After the last one Unpack returns the first
\* error, on which the worker sends it and goes on with the next unit, or
\* merges the sortBlocks into rs, where append leaves rs.Values a
\* capacity c, and the worker calls tsw.f(&rs, workerID) if the callback is
\* due
WorkerUnpackCollect(w) ==
    /\ worker[w].pc = "collect"
    /\ worker[w].up.done[worker[w].up.k + 1] # <<>>
    /\ \E r \in {unpackCollect(worker[w].rs, worker[w].up)} :
       \E collected \in {[worker EXCEPT ![w].up = r.U, ![w].rs = r.ret.dst]} :
       LET k == worker[w].tsw
       IN  IF ~r.last
           THEN /\ worker' = collected
                /\ tsws' = tsws
                /\ calls' = calls
           ELSE IF r.ret.err # Nil
                THEN /\ Len(tsws[k].doneCh) < 1
                     /\ tsws' = SendDone(tsws, k, UnpackErr(k, r.ret.err))
                     /\ worker' = [collected EXCEPT ![w].pc = "idle"]
                     /\ calls' = calls
                ELSE /\ tsws' = tsws
                     /\ \E c \in {mergeSortBlocksCap(worker[w].cap, worker[w].rs,
                                                      r.ret.sbs)} :
                            worker' = [collected EXCEPT
                                         ![w].cap = c,
                                         ![w].pc = IF callbackDue(r.ret.dst, rss.fetchData)
                                                   THEN "callback" ELSE "finish"]
                     /\ calls' = IF callbackDue(r.ret.dst, rss.fetchData)
                                 THEN Append(calls, [tsw |-> k, workerID |-> w,
                                                     rs |-> r.ret.dst])
                                 ELSE calls
    /\ UNCHANGED <<rss, ss, deadlineExceeded, timeseriesWorkCh, caller,
                   perQueryRowsProcessed, perQuerySeriesProcessed,
                   unpackWorkCh, unpackers>>
    /\ UNCHANGED restOfSpecUnpack

\* the callback tsw.f(&rs, workerID) returns to worker w
CallbackReturn(w) ==
    /\ worker[w].pc = "callback"
    /\ worker' = [worker EXCEPT ![w].pc = "finish"]
    /\ UNCHANGED <<rss, ss, deadlineExceeded, timeseriesWorkCh, tsws, caller,
                   calls, perQueryRowsProcessed, perQuerySeriesProcessed>>
    /\ UNCHANGED restOfSpec

\* tsw.rowsProcessed = len(rs.Values); tsw.doneCh <- nil; then
\* currentTime := fasttime.UnixTimestamp() and the reset policy, after
\* which the worker is back at the receive from timeseriesWorkCh
WorkerFinish(w) ==
    /\ worker[w].pc = "finish"
    /\ LET k == worker[w].tsw
       IN  /\ Len(tsws[k].doneCh) < 1
           /\ tsws' = SendDone([tsws EXCEPT ![k].rowsProcessed =
                                               Len(worker[w].rs.Values)],
                               k, NilErr)
    /\ \E currentTime \in FinishTimes :
           worker' = [worker EXCEPT
                        ![w] = [resetPolicy(@, currentTime) EXCEPT !.pc = "idle"]]
    /\ UNCHANGED <<rss, ss, deadlineExceeded, timeseriesWorkCh, caller, calls,
                   perQueryRowsProcessed, perQuerySeriesProcessed>>
    /\ UNCHANGED restOfSpec

Next ==
    \/ DeadlineExpires
    \/ Cancel
    \/ RunParallelCall
    \/ Feed
    \/ FeedDone
    \/ Await
    \/ RunParallelReturn
    \/ \E w \in WorkerIDs : WorkerDequeue(w)
    \/ \E w \in WorkerIDs : WorkerUnpackFeed(w)
    \/ \E u \in WorkerIDs : UnpackWorkerDequeue(u)
    \/ \E u \in WorkerIDs : WorkerUnpackWork(u)
    \/ \E w \in WorkerIDs : WorkerUnpackCollect(w)
    \/ \E w \in WorkerIDs : CallbackReturn(w)
    \/ \E w \in WorkerIDs : WorkerFinish(w)

Spec == Init /\ [][Next]_vars

(***************************************************************************)
(* SpecPool: the Results of several queries are cancelled or run by        *)
(* RunParallel at the same time on the one pool of gomaxprocs series       *)
(* workers, which hand their unpackWorks to the one pool of gomaxprocs     *)
(* unpack workers.  Every read of a block goes through the query's         *)
(* storage.Search and is counted there.                                    *)
(***************************************************************************)
\* the queries in flight
Queries == {1, 2}

\* the series of query q, k-th in its Results: the ids of different
\* queries differ
PoolSeries(q, kinds) ==
    [k \in 1..Len(kinds) |-> SeriesOfKind(kinds[k], 10 * q + k)]

\* the series kinds of the queries: one series of any kind in the first
\* query; no series, or one series that unpacks, in the second
PoolInputs ==
    {f \in [Queries -> KindLists(1)] :
        /\ Len(f[1]) = 1
        /\ f[2] \in {<<>>, <<"data">>, <<"outside">>}}

\* go timeseriesWorker(uint(i)): the workerID of the i-th series worker
timeseriesWorkerIDShared(i) == 0

timeseriesWorkerID(i) == i

\* the state when ProcessSearchQuery has returned the Results of every
\* query and all the workers started by the two init functions wait on
\* their channels, the series workers with rs and rsLastResetTime as
\* declared
InitPool ==
    /\ \E f \in PoolInputs, fd \in [Queries -> BOOLEAN] :
           handles = [q \in Queries |->
                         [tr |-> QueryRange,
                          fetchData |-> fd[q],
                          deadlineExceeded |-> FALSE,
                          packedTimeseries |-> PoolSeries(q, f[q]),
                          sr |-> <<q>>]]
    /\ searches = [q \in Queries |->
                      [closes |-> 0, pooled |-> 0, reads |-> 0, readsReleased |-> 0]]
    /\ callers = [q \in Queries |->
                     [pc |-> "ready", tsws |-> <<>>, i |-> 0, firstErr |-> NilErr,
                      rowsProcessedTotal |-> 0, ret |-> NilErr, len |-> -1,
                      terminal |-> FALSE, histograms |-> <<>>]]
    /\ works = <<>>
    /\ workCh = <<>>
    /\ workers = [w \in WorkerIDs |->
                     [workerID |-> timeseriesWorkerID(w), pc |-> "idle", tsw |-> 0,
                      rs |-> EmptyResult, up |-> NoUnpack,
                      cap |-> 0, rsLastResetTime |-> 0]]
    /\ unpackWorkCh = <<>>
    /\ unpackers = [u \in WorkerIDs |-> [pc |-> "idle", w |-> 0, n |-> 0]]
    /\ invocations = <<>>
    /\ IdleMerge
    /\ IdlePool
    /\ IdleQuery

\* the deadline of query q passes
PoolDeadlineExpires(q) ==
    /\ ~handles[q].deadlineExceeded
    /\ handles' = [handles EXCEPT ![q].deadlineExceeded = TRUE]
    /\ UNCHANGED <<searches, callers, works, workCh, workers, unpackWorkCh,
                   unpackers, invocations>>
    /\ UNCHANGED restOfPool

\* rss.Len() of query q
LenOf(q) ==
    /\ callers' = [callers EXCEPT ![q].len = Len(handles[q].packedTimeseries)]
    /\ UNCHANGED <<handles, searches, works, workCh, workers, unpackWorkCh,
                   unpackers, invocations>>
    /\ UNCHANGED restOfPool

\* rss.mustClose() of query q: putStorageSearch(rss.sr); rss.sr = nil.
\* With rss.sr = nil, sr.MustClose() dereferences the nil pointer and the
\* The pointer rss.sr is <<q>>, or <<>> when it is nil.
\* calling goroutine panics: ok tells whether it went through.
mustCloseOf(q, ok) ==
    LET sr == handles[q].sr
    IN  /\ ok = (sr # <<>>)
        /\ searches' = IF sr # <<>>
                       THEN [searches EXCEPT ![sr[1]] = putStorageSearch(@)]
                       ELSE searches
        /\ handles' = [handles EXCEPT ![q].sr = <<>>]

\* rss.Cancel() of query q
CancelOf(q) ==
    /\ \E ok \in BOOLEAN :
           /\ mustCloseOf(q, ok)
           /\ callers' = [callers EXCEPT
                            ![q].pc = IF ok THEN "cancelled" ELSE "panic",
                            ![q].terminal = TRUE]
    /\ UNCHANGED <<works, workCh, workers, unpackWorkCh, unpackers, invocations>>
    /\ UNCHANGED restOfPool

\* rss.RunParallel(f) of query q is entered: defer rss.mustClose() and
\* tsws := make([]*timeseriesWork, len(rss.packedTimeseries))
RunParallelCallOf(q) ==
    /\ callers' = [callers EXCEPT ![q].pc = "feed", ![q].i = 0, ![q].tsws = <<>>]
    /\ UNCHANGED <<handles, searches, works, workCh, workers, unpackWorkCh,
                   unpackers, invocations>>
    /\ UNCHANGED restOfPool

\* the one terminal call, Cancel or RunParallel, of a caller that keeps
\* to the contract
PoolCancel(q) == callers[q].pc = "ready" /\ CancelOf(q)

PoolRunParallelCall(q) == callers[q].pc = "ready" /\ RunParallelCallOf(q)

\* &timeseriesWork{rss, pts, f, doneCh: make(chan error, 1)} of query q.
\* Kept for inspection: orig, the series as it was enqueued; sent, every
\* value sent on doneCh; takenBy, every worker that received the unit;
\* afterTerminal, whether a terminal call on rss had ended when the unit
\* was enqueued
PoolTimeseriesWork(q, pts) ==
    [rss |-> q, pts |-> pts, doneCh |-> <<>>, rowsProcessed |-> 0,
     i |-> callers[q].i + 1,
     orig |-> pts, sent |-> <<>>, takenBy |-> <<>>,
     afterTerminal |-> callers[q].terminal]

\* one iteration of "Feed workers with work" of query q
PoolFeed(q) ==
    /\ callers[q].pc = "feed"
    /\ callers[q].i < Len(handles[q].packedTimeseries)
    /\ Len(workCh) < timeseriesWorkChCap
    /\ works' = Append(works, PoolTimeseriesWork(
                                  q, handles[q].packedTimeseries[callers[q].i + 1]))
    /\ workCh' = Append(workCh, Len(works) + 1)
    /\ callers' = [callers EXCEPT ![q].i = @ + 1,
                                  ![q].tsws = Append(@, Len(works) + 1)]
    /\ UNCHANGED <<handles, searches, workers, unpackWorkCh, unpackers,
                   invocations>>
    /\ UNCHANGED restOfPool

\* the feeding loop of query q has ended:
\* seriesProcessedTotal := len(rss.packedTimeseries)
\* rss.packedTimeseries = rss.packedTimeseries[:0]
PoolFeedDone(q) ==
    /\ callers[q].pc = "feed"
    /\ callers[q].i = Len(handles[q].packedTimeseries)
    /\ handles' = [handles EXCEPT ![q].packedTimeseries = <<>>]
    /\ callers' = [callers EXCEPT ![q].pc = "wait", ![q].i = 0,
                                  ![q].firstErr = NilErr,
                                  ![q].rowsProcessedTotal = 0]
    /\ UNCHANGED <<searches, works, workCh, workers, unpackWorkCh, unpackers,
                   invocations>>
    /\ UNCHANGED restOfPool

\* a waiting loop that does not receive from tsw.doneCh: it takes the
\* error if one was already sent and goes on
PoolAwaitNoReceive(q) ==
    /\ callers[q].pc = "wait"
    /\ callers[q].i < Len(callers[q].tsws)
    /\ LET k == callers[q].tsws[callers[q].i + 1]
           err == IF Len(works[k].doneCh) > 0 THEN works[k].doneCh[1] ELSE NilErr
       IN  /\ callers' = [callers EXCEPT
                            ![q].i = @ + 1,
                            ![q].firstErr = keepErr(@, err),
                            ![q].rowsProcessedTotal = @ + works[k].rowsProcessed]
           /\ works' = [works EXCEPT ![k].doneCh = <<>>]
    /\ UNCHANGED <<handles, searches, workCh, workers, unpackWorkCh, unpackers,
                   invocations>>
    /\ UNCHANGED restOfPool

\* one iteration of "Wait until work is complete" of query q:
\* <-tsw.doneCh blocks until the unit's worker has sent
PoolAwait(q) ==
    /\ callers[q].pc = "wait"
    /\ callers[q].i < Len(callers[q].tsws)
    /\ LET k == callers[q].tsws[callers[q].i + 1]
       IN  /\ Len(works[k].doneCh) > 0
           /\ callers' = [callers EXCEPT
                            ![q].i = @ + 1,
                            ![q].firstErr = keepErr(@, works[k].doneCh[1]),
                            ![q].rowsProcessedTotal = @ + works[k].rowsProcessed]
           /\ works' = [works EXCEPT ![k].doneCh = Tail(@)]
    /\ UNCHANGED <<handles, searches, workCh, workers, unpackWorkCh, unpackers,
                   invocations>>
    /\ UNCHANGED restOfPool

\* the waiting loop of query q has ended: the histograms are updated,
\* RunParallel returns firstErr and the deferred rss.mustClose() runs
PoolRunParallelReturn(q) ==
    /\ callers[q].pc = "wait"
    /\ callers[q].i = Len(callers[q].tsws)
    /\ \E ok \in BOOLEAN :
           /\ mustCloseOf(q, ok)
           /\ callers' = [callers EXCEPT
                            ![q].pc = IF ok THEN "returned" ELSE "panic",
                            ![q].ret = callers[q].firstErr,
                            ![q].terminal = TRUE,
                            ![q].histograms =
                                Append(@, <<callers[q].rowsProcessedTotal,
                                            Len(callers[q].tsws)>>)]
    /\ UNCHANGED <<works, workCh, workers, unpackWorkCh, unpackers, invocations>>
    /\ UNCHANGED restOfPool

\* tsw.doneCh <- err on the unit k
PoolSendDone(units, k, err) ==
    [units EXCEPT ![k].doneCh = Append(@, err), ![k].sent = Append(@, err)]

\* series worker w receives a unit from timeseriesWorkCh and checks the
\* deadline of the unit's query: if it is exceeded the worker sends the
\* timeout error and goes on with the next unit
PoolWorkerDequeue(w) ==
    /\ workers[w].pc = "idle"
    /\ Len(workCh) > 0
    /\ LET k == workCh[1]
           exceeded == handles[works[k].rss].deadlineExceeded
           taken == [works EXCEPT ![k].takenBy = Append(@, w)]
       IN  /\ workCh' = Tail(workCh)
           /\ IF exceeded
              THEN /\ Len(works[k].doneCh) < 1
                   /\ works' = PoolSendDone(taken, k, TimeoutErr(k))
                   /\ workers' = [workers EXCEPT ![w].tsw = k]
              ELSE /\ works' = taken
                   /\ workers' = [workers EXCEPT ![w].pc = "unpack", ![w].tsw = k]
    /\ UNCHANGED <<handles, searches, callers, unpackWorkCh, unpackers,
                   invocations>>
    /\ UNCHANGED restOfPool

\* series worker w in the feeding loop of
\* tsw.pts.Unpack(&rs, rss.tr, rss.fetchData).  The first step begins
\* with dst.reset() and the unmarshaling of the metric name, on whose error
\* the worker sends the error and goes on with the next unit.  Every step
\* fills the next unpackWork and sends it on unpackWorkCh, waiting while
\* the channel is full; after the last one pts.brs = pts.brs[:0], which is
\* seen in rss.packedTimeseries, where tsw.pts points to, while that
\* slice still has its length.
PoolUnpackFeed(w) ==
    /\ workers[w].pc = "unpack"
    /\ LET k == workers[w].tsw
           q == works[k].rss
           r == unpackFeed(works[k].pts, workers[w].rs, handles[q].tr,
                           handles[q].fetchData, workers[w].up)
           drained == [works EXCEPT ![k].pts.brs = r.brs]
       IN  /\ r.sent => Len(unpackWorkCh) < unpackWorkChCap
           /\ unpackWorkCh' = IF r.sent
                              THEN Append(unpackWorkCh,
                                          [w |-> w, n |-> Len(r.U.upws)])
                              ELSE unpackWorkCh
           /\ handles' = IF works[k].i <= Len(handles[q].packedTimeseries)
                         THEN [handles EXCEPT
                                 ![q].packedTimeseries[works[k].i].brs = r.brs]
                         ELSE handles
           /\ IF r.err # Nil
              THEN /\ Len(works[k].doneCh) < 1
                   /\ works' = PoolSendDone(drained, k, UnpackErr(k, r.err))
                   /\ workers' = [workers EXCEPT ![w].pc = "idle", ![w].rs = r.dst]
              ELSE /\ works' = drained
                   /\ workers' = [workers EXCEPT
                                     ![w].pc = IF r.last THEN "collect" ELSE @,
                                     ![w].rs = r.dst,
                                     ![w].up = r.U]
    /\ UNCHANGED <<searches, callers, workCh, unpackers, invocations>>
    /\ UNCHANGED restOfPool

\* unpack worker u runs upw.unpack(): every block is read through the
\* Search of the unit's query, and the error or nil is sent on upw.doneCh.
\* What a block read through a closed Search holds is not defined: the
\* unpack then gives what it would have given or fails.
UnpackWorkerUnpack(u) ==
    /\ unpackers[u].pc = "unpack"
    /\ LET w == unpackers[u].w
           n == unpackers[u].n
           q == works[workers[w].tsw].rss
           upw == workers[w].up.upws[n]
           r == unpack(upw)
           nread == IF r.err = Nil THEN Len(upw.ws) ELSE Len(r.sbs) - Len(upw.sbs) + 1
           closed == searches[q].closes > 0
           outcomes == IF closed
                       THEN {r, [err |-> "cannot unpack block", sbs |-> upw.sbs]}
                       ELSE {r}
       IN  /\ \E out \in outcomes :
                  workers' = [workers EXCEPT ![w].up = unpackWorkDone(@, n, out)]
           /\ searches' = [searches EXCEPT
                             ![q].reads = @ + nread,
                             ![q].readsReleased = @ + IF closed THEN nread ELSE 0]
    /\ unpackers' = [unpackers EXCEPT ![u].pc = "idle"]
    /\ UNCHANGED <<handles, callers, works, workCh, unpackWorkCh, invocations>>
    /\ UNCHANGED restOfPool

\* series worker w in the waiting loop of Unpack: a step receives from
\* the doneCh of the next unit.  After the last one Unpack returns the
\* first error, on which the worker sends it and goes on with the next
\* unit, or merges the sortBlocks into rs, where append leaves rs.Values a
\* capacity c, and the worker calls tsw.f(&rs, workerID) if the callback is
\* due
PoolUnpackCollect(w) ==
    /\ workers[w].pc = "collect"
    /\ workers[w].up.done[workers[w].up.k + 1] # <<>>
    /\ \E r \in {unpackCollect(workers[w].rs, workers[w].up)} :
       \E collected \in {[workers EXCEPT ![w].up = r.U, ![w].rs = r.ret.dst]} :
       LET k == workers[w].tsw
           q == works[k].rss
       IN  IF ~r.last
           THEN /\ workers' = collected
                /\ works' = works
                /\ invocations' = invocations
           ELSE IF r.ret.err # Nil
                THEN /\ Len(works[k].doneCh) < 1
                     /\ works' = PoolSendDone(works, k, UnpackErr(k, r.ret.err))
                     /\ workers' = [collected EXCEPT ![w].pc = "idle"]
                     /\ invocations' = invocations
                ELSE /\ works' = works
                     /\ \E c \in {mergeSortBlocksCap(workers[w].cap, workers[w].rs,
                                                      r.ret.sbs)} :
                            workers' = [collected EXCEPT
                                          ![w].cap = c,
                                          ![w].pc =
                                              IF callbackDue(r.ret.dst, handles[q].fetchData)
                                              THEN "callback" ELSE "finish"]
                     /\ invocations' =
                            IF callbackDue(r.ret.dst, handles[q].fetchData)
                            THEN Append(invocations,
                                        [tsw |-> k, rss |-> q,
                                         workerID |-> workers[w].workerID,
                                         goroutine |-> w, rs |-> r.ret.dst,
                                         running |-> TRUE])
                            ELSE invocations
    /\ UNCHANGED <<handles, searches, callers, workCh, unpackWorkCh, unpackers>>
    /\ UNCHANGED restOfPool

\* the callback tsw.f(&rs, workerID) returns to series worker w
PoolCallbackReturn(w) ==
    /\ workers[w].pc = "callback"
    /\ workers' = [workers EXCEPT ![w].pc = "finish"]
    /\ invocations' = [c \in 1..Len(invocations) |->
                          IF invocations[c].goroutine = w
                          THEN [invocations[c] EXCEPT !.running = FALSE]
                          ELSE invocations[c]]
    /\ UNCHANGED <<handles, searches, callers, works, workCh, unpackWorkCh,
                   unpackers>>
    /\ UNCHANGED restOfPool

\* tsw.rowsProcessed = len(rs.Values); tsw.doneCh <- nil; then
\* currentTime := fasttime.UnixTimestamp() and the reset policy, after
\* which the worker is back at the receive from timeseriesWorkCh
PoolWorkerFinish(w) ==
    /\ workers[w].pc = "finish"
    /\ LET k == workers[w].tsw
       IN  /\ Len(works[k].doneCh) < 1
           /\ works' = PoolSendDone([works EXCEPT ![k].rowsProcessed =
                                                    Len(workers[w].rs.Values)],
                                    k, NilErr)
    /\ \E currentTime \in FinishTimes :
           workers' = [workers EXCEPT
                         ![w] = [resetPolicy(@, currentTime) EXCEPT !.pc = "idle"]]
    /\ UNCHANGED <<handles, searches, callers, workCh, unpackWorkCh, unpackers,
                   invocations>>
    /\ UNCHANGED restOfPool

NextPool ==
    \/ \E q \in Queries : PoolDeadlineExpires(q)
    \/ \E q \in Queries : PoolCancel(q)
    \/ \E q \in Queries : PoolRunParallelCall(q)
    \/ \E q \in Queries : PoolFeed(q)
    \/ \E q \in Queries : PoolFeedDone(q)
    \/ \E q \in Queries : PoolAwait(q)
    \/ \E q \in Queries : PoolRunParallelReturn(q)
    \/ \E w \in WorkerIDs : PoolWorkerDequeue(w)
    \/ \E w \in WorkerIDs : PoolUnpackFeed(w)
    \/ \E u \in WorkerIDs : UnpackWorkerDequeue(u)
    \/ \E u \in WorkerIDs : UnpackWorkerUnpack(u)
    \/ \E w \in WorkerIDs : PoolUnpackCollect(w)
    \/ \E w \in WorkerIDs : PoolCallbackReturn(w)
    \/ \E w \in WorkerIDs : PoolWorkerFinish(w)

SpecPool == InitPool /\ [][NextPool]_vars

(***************************************************************************)
(* SpecShared: the series workers with their reused Result, either under   *)
(* one RunParallel with several series (Spec) or under the RunParallels of *)
(* two queries (SpecPool).                                                 *)
(***************************************************************************)
InitShared == Init \/ InitPool

NextShared ==
    \/ caller.pc # "none" /\ Next
    \/ handles # <<>> /\ NextPool

SpecShared == InitShared /\ [][NextShared]_vars

(***************************************************************************)
(* SpecHandle: as SpecPool, with a caller that goes on calling Len, Cancel *)
(* and RunParallel on its Results after the terminal call.                 *)
(***************************************************************************)
\* a terminal call on the Results of query q has ended
Terminated(q) == callers[q].pc \in {"cancelled", "returned"}

\* the Results as ProcessSearchQuery returned them: the second query has
\* no series
InitHandle ==
    /\ InitPool
    /\ handles[2].packedTimeseries = <<>>
    /\ ~handles[2].fetchData

\* rss.Len() between the other calls
HandleLen(q) ==
    /\ callers[q].pc = "ready" \/ Terminated(q)
    /\ callers[q].len # Len(handles[q].packedTimeseries)
    /\ LenOf(q)

\* rss.Cancel() after a terminal call
HandleCancelAgain(q) == Terminated(q) /\ CancelOf(q)

\* rss.RunParallel(f) after a terminal call
HandleRunParallelAgain(q) == Terminated(q) /\ RunParallelCallOf(q)

NextHandle ==
    \/ NextPool
    \/ \E q \in Queries : HandleLen(q)
    \/ \E q \in Queries : HandleCancelAgain(q)
    \/ \E q \in Queries : HandleRunParallelAgain(q)

SpecHandle == InitHandle /\ [][NextHandle]_vars

(***************************************************************************)
(* SpecQuery: one call of ProcessSearchQuery(sq, fetchData, deadline).     *)
(* The storage search yields a stream of (metric name, block ref) pairs,   *)
(* the k-th block ref being k, and may end with an error at any call of    *)
(* NextMetricBlock; the deadline may pass at any moment.                   *)
(***************************************************************************)
\* the longest stream of blocks a search yields
MaxStream == 3

\* the metric names of the stored series
MetricNames == {"a", "b", "c"}

\* the streams of metric names the search can yield
Streams == UNION {[1..n -> MetricNames] : n \in 0..MaxStream}

\* the nil error of ProcessSearchQuery
NoErr == [msg |-> Nil, cause |-> Nil]

\* the state when ProcessSearchQuery is called
InitQuery ==
    /\ \E filtersOK, timeRangeOK, fetchData \in BOOLEAN :
           psq = [pc |-> "entry",
                  sq |-> [TagFilterssOK |-> filtersOK, TimeRangeOK |-> timeRangeOK,
                          MinTimestamp |-> QueryRange.MinTimestamp,
                          MaxTimestamp |-> QueryRange.MaxTimestamp],
                  fetchData |-> fetchData,
                  deadlineExceeded |-> FALSE,
                  tfssCalls |-> 0,
                  sr |-> <<>>,
                  m |-> [name \in MetricNames |-> <<>>],
                  orderedMetricNames |-> <<>>,
                  blocksRead |-> 0,
                  ret |-> [rss |-> <<>>, err |-> NoErr],
                  exceededAtEntry |-> <<>>,
                  exceededAtBlock |-> <<>>]
    /\ \E stream \in Streams, wg \in 0..1 :
           vmstorage = [WG |-> wg, before |-> wg, adds |-> 0, dones |-> 0,
                        stream |-> stream, next |-> 0, err |-> Nil,
                        accesses |-> 0]
    /\ ssPool = [gets |-> 0, open |-> FALSE, closes |-> 0, puts |-> 0]
    /\ reordered = <<>>
    /\ rsWorker = <<>>
    /\ IdleStages
    /\ IdleMerge
    /\ IdlePool
    /\ IdleHandles

\* the deadline of the query passes
QueryDeadlineExpires ==
    /\ psq.pc # "done"
    /\ ~psq.deadlineExceeded
    /\ psq' = [psq EXCEPT !.deadlineExceeded = TRUE]
    /\ UNCHANGED <<vmstorage, ssPool>>
    /\ UNCHANGED restOfQuery

\* an entry that does not look at the deadline
PSQEnterNoCheck ==
    /\ psq.pc = "entry"
    /\ psq' = [psq EXCEPT !.pc = "setup",
                          !.exceededAtEntry = <<psq.deadlineExceeded>>]
    /\ UNCHANGED <<vmstorage, ssPool>>
    /\ UNCHANGED restOfQuery

\* if deadline.Exceeded() { return nil, "timeout exceeded before ..." }
PSQEnter ==
    /\ psq.pc = "entry"
    /\ psq' = IF psq.deadlineExceeded
              THEN [psq EXCEPT
                      !.pc = "done",
                      !.exceededAtEntry = <<TRUE>>,
                      !.ret.err = [msg |-> "timeout exceeded before starting the query processing",
                                   cause |-> Nil]]
              ELSE [psq EXCEPT !.pc = "setup", !.exceededAtEntry = <<FALSE>>]
    /\ UNCHANGED <<vmstorage, ssPool>>
    /\ UNCHANGED restOfQuery

\* vmstorage.WG.Add(1)
wgAdd(g) == [g EXCEPT !.WG = @ + 1, !.adds = @ + 1]

\* a return that leaves the counter as it is
wgDoneMissing(g) == g

\* defer vmstorage.WG.Done()
wgDone(g) == [g EXCEPT !.WG = @ - 1, !.dones = @ + 1]

\* "Setup search": setupTfss and CheckTimeRange, each of which may return
\* its error; then WG.Add(1), getStorageSearch() and sr.Init(...)
PSQSetup ==
    /\ psq.pc = "setup"
    /\ IF ~psq.sq.TagFilterssOK
       THEN /\ psq' = [psq EXCEPT !.pc = "done", !.tfssCalls = @ + 1,
                                  !.ret.err = [msg |-> "cannot parse tag filter",
                                               cause |-> Nil]]
            /\ UNCHANGED <<vmstorage, ssPool>>
       ELSE IF ~psq.sq.TimeRangeOK
       THEN /\ psq' = [psq EXCEPT !.pc = "done", !.tfssCalls = @ + 1,
                                  !.ret.err = [msg |-> "CheckTimeRange", cause |-> Nil]]
            /\ UNCHANGED <<vmstorage, ssPool>>
       ELSE /\ psq' = [psq EXCEPT !.pc = "drain", !.tfssCalls = @ + 1, !.sr = <<1>>]
            /\ vmstorage' = [wgAdd(vmstorage) EXCEPT !.accesses = @ + 1]
            /\ ssPool' = [ssPool EXCEPT !.gets = @ + 1, !.open = TRUE]
    /\ UNCHANGED restOfQuery

\* a grouping that takes every block for the first one of its name
groupBlockAlwaysNew(mo, metricName, br) ==
    LET brs == Append(mo.m[metricName], br)
    IN  [m |-> [mo.m EXCEPT ![metricName] = brs],
         orderedMetricNames |-> Append(mo.orderedMetricNames, metricName)]

\* brs := m[string(metricName)]; brs = append(brs, *sr.MetricBlockRef.BlockRef)
\* if len(brs) > 1 { m[...] = brs } else { orderedMetricNames = append(...);
\* m[...] = brs }, on mo = [m, orderedMetricNames]
groupBlock(mo, metricName, br) ==
    LET brs == Append(mo.m[metricName], br)
    IN  IF Len(brs) > 1
        THEN [m |-> [mo.m EXCEPT ![metricName] = brs],
              orderedMetricNames |-> mo.orderedMetricNames]
        ELSE [m |-> [mo.m EXCEPT ![metricName] = brs],
              orderedMetricNames |-> Append(mo.orderedMetricNames, metricName)]

\* a drain that looks at the deadline only at every second block
drainDeadlineExceededEverySecond(exceeded, blocksRead) ==
    exceeded /\ blocksRead % 2 = 0

\* if deadline.Exceeded() after blocksRead++
drainDeadlineExceeded(exceeded, blocksRead) == exceeded

\* one evaluation of "for sr.NextMetricBlock()": the search yields the next
\* block of the stream, or ends, with or without an error.  For a block
\* yielded: blocksRead++, the deadline is checked (a timeout returns, with
\* the deferred WG.Done()), and the block is put under its metric name.
PSQNextMetricBlock ==
    /\ psq.pc = "drain"
    /\ \E outcome \in (IF vmstorage.next < Len(vmstorage.stream)
                       THEN {"block"} ELSE {"end"})
                      \cup {"ErrDeadlineExceeded", "other"} :
           IF outcome = "block"
           THEN LET br == vmstorage.next + 1
                    metricName == vmstorage.stream[br]
                    blocksRead == psq.blocksRead + 1
                    seen == Append(psq.exceededAtBlock, psq.deadlineExceeded)
                    mo == groupBlock([m |-> psq.m,
                                      orderedMetricNames |-> psq.orderedMetricNames],
                                     metricName, br)
                    yielded == [vmstorage EXCEPT !.next = br, !.accesses = @ + 1]
                IN  IF drainDeadlineExceeded(psq.deadlineExceeded, blocksRead)
                    THEN /\ psq' = [psq EXCEPT
                                      !.pc = "done",
                                      !.blocksRead = blocksRead,
                                      !.exceededAtBlock = seen,
                                      !.ret.err = [msg |-> "timeout exceeded while fetching data block from storage",
                                                   cause |-> Nil]]
                         /\ vmstorage' = wgDone(yielded)
                    ELSE /\ psq' = [psq EXCEPT
                                      !.blocksRead = blocksRead,
                                      !.exceededAtBlock = seen,
                                      !.m = mo.m,
                                      !.orderedMetricNames = mo.orderedMetricNames]
                         /\ vmstorage' = yielded
           ELSE /\ psq' = [psq EXCEPT !.pc = "finish"]
                /\ vmstorage' = [vmstorage EXCEPT
                                   !.accesses = @ + 1,
                                   !.err = IF outcome = "end" THEN Nil ELSE outcome]
    /\ UNCHANGED ssPool
    /\ UNCHANGED restOfQuery

\* var rss Results; rss.tr = tr; ...; rss.packedTimeseries = pts; rss.sr = sr
newResults(tr, fetchData, orderedMetricNames, mm, sr) ==
    [tr |-> tr,
     fetchData |-> fetchData,
     packedTimeseries |-> [i \in 1..Len(orderedMetricNames) |->
                              [metricName |-> orderedMetricNames[i],
                               brs |-> mm[orderedMetricNames[i]]]],
     sr |-> sr]

\* after the loop: sr.Error() is returned as a timeout if it is
\* storage.ErrDeadlineExceeded and as a search error otherwise; with no
\* error the Results is built and returned.  The deferred WG.Done() runs.
PSQFinish ==
    /\ psq.pc = "finish"
    /\ psq' = IF vmstorage.err = "ErrDeadlineExceeded"
              THEN [psq EXCEPT !.pc = "done",
                               !.ret.err = [msg |-> "timeout exceeded during the query",
                                            cause |-> Nil]]
              ELSE IF vmstorage.err # Nil
              THEN [psq EXCEPT !.pc = "done",
                               !.ret.err = [msg |-> "search error after reading data blocks",
                                            cause |-> vmstorage.err]]
              ELSE [psq EXCEPT
                      !.pc = "done",
                      !.ret.rss = <<newResults([MinTimestamp |-> psq.sq.MinTimestamp,
                                                MaxTimestamp |-> psq.sq.MaxTimestamp],
                                               psq.fetchData, psq.orderedMetricNames,
                                               psq.m, psq.sr)>>]
    /\ vmstorage' = wgDone(vmstorage)
    /\ UNCHANGED ssPool
    /\ UNCHANGED restOfQuery

NextQuery ==
    \/ QueryDeadlineExpires
    \/ PSQEnter
    \/ PSQSetup
    \/ PSQNextMetricBlock
    \/ PSQFinish

SpecQuery == InitQuery /\ [][NextQuery]_vars

(***************************************************************************)
(* SpecOrder: one series is unpacked with its blocks in another order than *)
(* the one they are stored in.  The series are the small ones of           *)
(* SpecMerge, in every order, and series of unpackBatchSize,               *)
(* unpackBatchSize + 1 and 2 * unpackBatchSize blocks, reversed or rotated.*)
(***************************************************************************)
\* the numbers of blocks at the borders of the unpack batches
BatchSizes == {unpackBatchSize, unpackBatchSize + 1, 2 * unpackBatchSize}

\* the timestamps of the n-th block of a series of many blocks: the last
\* one of an odd block is the first one of the next block, and every block
\* holds one timestamp that no other block holds
BatchBlockTimestamps(n) == <<2 * n, 2 * n + 1 + (n % 2)>>

\* the time range of the query for a series of many blocks: it cuts off
\* the first row of the first block and the last row of the last one
BatchRange(size) == [MinTimestamp |-> 3, MaxTimestamp |-> 2 * size]

\* the permutations of 1..n
Permutations(n) ==
    {f \in [1..n -> 1..n] : \A i, j \in 1..n : i # j => f[i] # f[j]}

\* the orders in which n blocks are unpacked: every order of a few blocks;
\* of many blocks the stored order, its reverse and two rotations
Orders(n) ==
    IF n <= MaxBlocks + 1
    THEN Permutations(n)
    ELSE {[i \in 1..n |-> i],
          [i \in 1..n |-> n + 1 - i],
          [i \in 1..n |-> 1 + (i % n)],
          [i \in 1..n |-> 1 + ((i + unpackBatchSize - 1) % n)]}

\* the series of a few blocks with rows, and of many, with the time range
OrderInputs ==
    {[stored |-> [n \in 1..Len(tsl) |-> StoredBlock(n, tsl[n])],
      tr |-> QueryRange] :
        tsl \in {l \in TimestampLists(MaxBlocks, MaxSamples) :
                    \A n \in 1..Len(l) : l[n] # <<>>}}
    \cup
    {[stored |-> [n \in 1..size |-> StoredBlock(n, BatchBlockTimestamps(n))],
      tr |-> BatchRange(size)] :
        size \in BatchSizes}

InitOrder ==
    /\ \E input \in OrderInputs :
           \E order \in Orders(Len(input.stored)) :
               reordered = [stored |-> input.stored,
                            order |-> order,
                            pts |-> [metricName |-> [id |-> 1, corrupt |-> FALSE],
                                     brs |-> [i \in 1..Len(input.stored) |->
                                                 input.stored[order[i]]]],
                            tr |-> input.tr,
                            pc |-> "queued",
                            up |-> NoUnpack,
                            err |-> Nil,
                            rs |-> EmptyResult]
    /\ IdleMerge
    /\ IdlePool
    /\ IdleResults
    /\ UnpackWorkersStarted
    /\ psq = <<>>
    /\ vmstorage = <<>>
    /\ ssPool = <<>>
    /\ rsWorker = <<>>
    /\ IdleStages

\* tsw.pts.Unpack(&rs, rss.tr, true) on the blocks in their order, up to
\* pts.brs = pts.brs[:0]: a step sends one unit on unpackWorkCh, waiting
\* while the channel is full
OrderUnpackFeed ==
    /\ reordered.pc = "queued"
    /\ LET r == unpackFeed(reordered.pts, reordered.rs, reordered.tr, TRUE,
                           reordered.up)
       IN  /\ r.sent => Len(unpackWorkCh) < unpackWorkChCap
           /\ unpackWorkCh' = IF r.sent
                              THEN Append(unpackWorkCh,
                                          [w |-> 0, n |-> Len(r.U.upws)])
                              ELSE unpackWorkCh
           /\ reordered' = [reordered EXCEPT
                  !.pc = IF r.err # Nil THEN "unpacked"
                                        ELSE IF r.last THEN "collect" ELSE @,
                  !.up = r.U,
                  !.pts.brs = r.brs,
                  !.err = r.err,
                  !.rs = r.dst]
    /\ UNCHANGED unpackers
    /\ UNCHANGED restOfOrderUnpack

\* unpack worker u runs upw.unpack() and sends on upw.doneCh
OrderUnpackWork(u) ==
    /\ unpackers[u].pc = "unpack"
    /\ reordered' = [reordered EXCEPT
           !.up = unpackWorkDone(@, unpackers[u].n, unpack(@.upws[unpackers[u].n]))]
    /\ unpackers' = [unpackers EXCEPT ![u].pc = "idle"]
    /\ UNCHANGED unpackWorkCh
    /\ UNCHANGED restOfOrderUnpack

\* the waiting loop of Unpack: a step receives from the doneCh of the next
\* unit; after the last one Unpack returns the first error or merges the
\* sortBlocks into rs
OrderUnpackCollect ==
    /\ reordered.pc = "collect"
    /\ reordered.up.done[reordered.up.k + 1] # <<>>
    /\ \E r \in {unpackCollect(reordered.rs, reordered.up)} :
           reordered' = [reordered EXCEPT
               !.pc = IF r.last THEN "unpacked" ELSE @,
               !.up = r.U,
               !.err = r.ret.err,
               !.rs = r.ret.dst]
    /\ UNCHANGED <<unpackWorkCh, unpackers>>
    /\ UNCHANGED restOfOrderUnpack

NextOrder ==
    \/ OrderUnpackFeed
    \/ \E u \in WorkerIDs : UnpackWorkerDequeue(u)
    \/ \E u \in WorkerIDs : OrderUnpackWork(u)
    \/ OrderUnpackCollect

SpecOrder == InitOrder /\ [][NextOrder]_vars

(***************************************************************************)
(* SpecReset: one timeseriesWorker and its reusable rs over several        *)
(* series.  Of rs only len(rs.Values) and cap(rs.Values) are kept; a       *)
(* series is given by the numbers of rows the appends of mergeSortBlocks   *)
(* add one after the other, fetchData is set, and fasttime.UnixTimestamp() *)
(* is a clock of whole seconds that never goes back, so that the uint64    *)
(* difference of the policy does not wrap.                                 *)
(***************************************************************************)
\* the series the worker takes
MaxResetSeries == 4

\* the seconds the clock advances in all
MaxClock == 12

\* the seconds the clock advances in one step
ClockSteps == {1, 10}

\* the series: the rows each append of mergeSortBlocks adds.  Two blocks of
\* 300 rows grow the buffer through the size classes of the allocator; one
\* block of 1024*1024 rows gets a buffer of just that capacity, which the
\* policy leaves alone; a row more, in the block or after it, makes the
\* runtime allocate more than 1024*1024 values
ResetSeries ==
    {<<>>, <<1>>, <<1, 1, 1>>, <<300, 300>>,
     <<256 * 1024>>, <<256 * 1024, 1>>,
     <<1024 * 1024>>, <<1024 * 1024, 1>>, <<1024 * 1024 + 1>>}

\* the rows of a series
RECURSIVE ResetRows(_)
ResetRows(chunks) ==
    IF chunks = <<>> THEN 0 ELSE Head(chunks) + ResetRows(Tail(chunks))

\* cap(rs.Values) after the appends of the chunks to rs.Values of len
\* values and capacity cap
RECURSIVE appendsCap(_, _, _)
appendsCap(cap, len, chunks) ==
    IF chunks = <<>>
    THEN cap
    ELSE appendsCap(appendCap(cap, len, Head(chunks)), len + Head(chunks),
                    Tail(chunks))

\* var rs Result; var rsLastResetTime uint64
InitReset ==
    /\ rsWorker = [pc |-> "idle",
                   len |-> 0,
                   cap |-> 0,
                   rsLastResetTime |-> 0,
                   now |-> StartTime,
                   taken |-> 0,
                   had |-> 0,
                   afterReset |-> FALSE,
                   spikeAt |-> <<>>,
                   callback |-> <<>>,
                   check |-> <<>>]
    /\ IdleMerge
    /\ IdlePool
    /\ IdleHandles
    /\ psq = <<>>
    /\ vmstorage = <<>>
    /\ ssPool = <<>>
    /\ reordered = <<>>
    /\ IdleStages

\* a second, or ten, pass
ResetClockTick(d) ==
    /\ rsWorker.now + d <= StartTime + MaxClock
    /\ rsWorker' = [rsWorker EXCEPT !.now = @ + d]
    /\ UNCHANGED restOfReset

\* the worker receives a unit whose deadline is exceeded and sends the
\* timeout error: rs is not touched and the policy is not reached
ResetTimeout ==
    /\ rsWorker.pc = "idle"
    /\ rsWorker.taken < MaxResetSeries
    /\ rsWorker' = [rsWorker EXCEPT !.taken = @ + 1,
                                    !.callback = <<>>,
                                    !.check = <<>>]
    /\ UNCHANGED restOfReset

\* the worker receives a unit whose deadline is not exceeded; afterReset
\* notes whether the policy has replaced rs just before
ResetDequeue ==
    /\ rsWorker.pc = "idle"
    /\ rsWorker.taken < MaxResetSeries
    /\ rsWorker' = [rsWorker EXCEPT
           !.pc = "unpack",
           !.taken = @ + 1,
           !.afterReset = rsWorker.check # <<>> /\ rsWorker.check[1].reset,
           !.callback = <<>>,
           !.check = <<>>]
    /\ UNCHANGED restOfReset

\* Unpack up to the waiting loop: dst.reset() empties rs.Values and leaves
\* its capacity; when the metric name does not parse (~ok) Unpack returns
\* the error, the worker sends it and the policy is not reached
ResetUnpackEnter(ok) ==
    /\ rsWorker.pc = "unpack"
    /\ rsWorker' = [rsWorker EXCEPT
           !.pc = IF ok THEN "collect" ELSE "idle",
           !.len = 0,
           !.afterReset = IF ok THEN @ ELSE FALSE]
    /\ UNCHANGED restOfReset

\* the waiting loop of Unpack ends with an error: the worker sends it and
\* the policy is not reached
ResetUnpackError ==
    /\ rsWorker.pc = "collect"
    /\ rsWorker' = [rsWorker EXCEPT !.pc = "idle", !.afterReset = FALSE]
    /\ UNCHANGED restOfReset

\* the waiting loop of Unpack ends without error and mergeSortBlocks
\* appends the rows of the series chunk by chunk to the emptied rs.Values,
\* which leaves it the capacity c.  had is the capacity rs had before,
\* spikeAt the time at which the runtime allocated more than 1024*1024
\* values for the buffer rs holds
ResetUnpack(chunks) ==
    /\ rsWorker.pc = "collect"
    /\ \E c \in {appendsCap(rsWorker.cap, 0, chunks)} :
           rsWorker' = [rsWorker EXCEPT
               !.pc = "unpacked",
               !.len = ResetRows(chunks),
               !.cap = c,
               !.had = rsWorker.cap,
               !.spikeAt = IF c > rsWorker.cap
                           THEN IF c > 1024 * 1024 THEN <<rsWorker.now>> ELSE <<>>
                           ELSE @]
    /\ UNCHANGED restOfReset

\* if len(rs.Timestamps) > 0 || !rss.fetchData { tsw.f(&rs, workerID) }
\* with fetchData set.  The callback is recorded with the capacity rs had
\* before the series (had), whether the policy had replaced rs just before
\* (afterReset), the time of the call (at) and the time at which a series
\* before this one made the runtime allocate more than 1024*1024 values
\* for the buffer it gets (spikeAt)
ResetCallback ==
    /\ rsWorker.pc = "unpacked"
    /\ rsWorker' = [rsWorker EXCEPT
           !.pc = IF rsWorker.len > 0 THEN "callback" ELSE "finish",
           !.had = 0,
           !.afterReset = FALSE,
           !.callback = IF rsWorker.len > 0
                        THEN <<[len |-> rsWorker.len, cap |-> rsWorker.cap,
                                had |-> rsWorker.had,
                                at |-> rsWorker.now,
                                afterReset |-> rsWorker.afterReset,
                                spikeAt |-> IF rsWorker.cap > rsWorker.had
                                            THEN <<>>
                                            ELSE rsWorker.spikeAt]>>
                        ELSE <<>>]
    /\ UNCHANGED restOfReset

\* tsw.f(&rs, workerID) returns
ResetCallbackReturn ==
    /\ rsWorker.pc = "callback"
    /\ rsWorker' = [rsWorker EXCEPT !.pc = "finish"]
    /\ UNCHANGED restOfReset

\* tsw.rowsProcessed = len(rs.Values); tsw.doneCh <- nil
ResetSend ==
    /\ rsWorker.pc = "finish"
    /\ rsWorker' = [rsWorker EXCEPT !.pc = "delivered"]
    /\ UNCHANGED restOfReset

\* currentTime := fasttime.UnixTimestamp() and the policy
ResetCheck ==
    /\ rsWorker.pc = "delivered"
    /\ LET currentTime == rsWorker.now
           due == resetDue(rsWorker.len, rsWorker.cap, currentTime,
                           rsWorker.rsLastResetTime)
       IN  rsWorker' = [rsWorker EXCEPT
               !.pc = "idle",
               !.len = IF due THEN 0 ELSE @,
               !.cap = IF due THEN 0 ELSE @,
               !.rsLastResetTime = IF due THEN currentTime ELSE @,
               !.spikeAt = IF due THEN <<>> ELSE @,
               !.check = <<[len |-> rsWorker.len, cap |-> rsWorker.cap,
                            currentTime |-> currentTime,
                            rsLastResetTime |-> rsWorker.rsLastResetTime,
                            reset |-> due]>>]
    /\ UNCHANGED restOfReset

NextReset ==
    \/ \E d \in ClockSteps : ResetClockTick(d)
    \/ ResetTimeout
    \/ ResetDequeue
    \/ \E ok \in BOOLEAN : ResetUnpackEnter(ok)
    \/ ResetUnpackError
    \/ \E chunks \in ResetSeries : ResetUnpack(chunks)
    \/ ResetCallback
    \/ ResetCallbackReturn
    \/ ResetSend
    \/ ResetCheck

SpecReset == InitReset /\ [][NextReset]_vars

(***************************************************************************)
(* SpecLabels: one call of GetLabelEntries.  A TagEntry is [Key, Values];  *)
(* the keys are strings, compared as Go compares them (byte by byte).      *)
(***************************************************************************)
\* the entries the storage holds at most
MaxEntries == 3

\* the values an entry holds at most
MaxValues == 2

\* the keys of the entries, in ascending order of Go's string comparison
LabelKeys == <<"", "A", "__name__", "a">>

\* the position of a key in the ascending order
KeyRank(key) == CHOOSE i \in 1..Len(LabelKeys) : LabelKeys[i] = key

\* the entries the storage can hold
TagEntries ==
    {[Key |-> LabelKeys[i], Values |-> [v \in 1..n |-> v]] :
        i \in 1..Len(LabelKeys), n \in 0..MaxValues}

\* what vmstorage.SearchTagEntries can return
StoredEntries == UNION {[1..n -> TagEntries] : n \in 0..MaxEntries}

\* if e.Key == "" { e.Key = "__name__" }
substituteName(e) == IF e.Key = "" THEN [e EXCEPT !.Key = "__name__"] ELSE e

\* a less function that orders equal numbers of values by ascending key
labelEntriesLessKeyAscending(x, y) ==
    IF Len(x.Values) # Len(y.Values)
    THEN Len(x.Values) > Len(y.Values)
    ELSE KeyRank(x.Key) < KeyRank(y.Key)

\* the less function handed to sort.Slice
labelEntriesLess(x, y) ==
    IF Len(x.Values) # Len(y.Values)
    THEN Len(x.Values) > Len(y.Values)
    ELSE KeyRank(x.Key) > KeyRank(y.Key)

\* sort.Slice(labelEntries, less): the slice holds the entries it held, no
\* entry stands before one that is less than it; the order of entries of
\* which neither is less than the other is not specified
sortSlice(entries) ==
    LET n == Len(entries)
    IN  {[i \in 1..n |-> entries[p[i]]] :
            p \in {q \in [1..n -> 1..n] :
                     /\ \A i, j \in 1..n : i # j => q[i] # q[j]
                     /\ \A i, j \in 1..n :
                            i < j => ~labelEntriesLess(entries[q[j]], entries[q[i]])}}

InitLabels ==
    /\ \E stored \in StoredEntries, err \in {Nil, "storage error"} :
           labelq = [pc |-> "entry",
                     deadlineExceeded |-> FALSE,
                     exceededAtEntry |-> FALSE,
                     stored |-> stored,
                     storageErr |-> err,
                     searches |-> 0,
                     ret |-> [entries |-> <<>>, err |-> Nil]]
    /\ IdleMerge
    /\ IdlePool
    /\ IdleHandles
    /\ psq = <<>>
    /\ vmstorage = <<>>
    /\ ssPool = <<>>
    /\ reordered = <<>>
    /\ rsWorker = <<>>
    /\ unpacking = <<>>
    /\ merging = <<>>
    /\ tally = <<>>
    /\ flow = <<>>

\* the deadline passes
LabelsDeadlineExpires ==
    /\ labelq.pc # "done"
    /\ ~labelq.deadlineExceeded
    /\ labelq' = [labelq EXCEPT !.deadlineExceeded = TRUE]
    /\ UNCHANGED restOfLabels

\* if deadline.Exceeded() { return nil, fmt.Errorf("timeout exceeded ...") }
LabelsEnter ==
    /\ labelq.pc = "entry"
    /\ labelq' = [labelq EXCEPT
           !.exceededAtEntry = labelq.deadlineExceeded,
           !.pc = IF labelq.deadlineExceeded THEN "done" ELSE "search",
           !.ret = IF labelq.deadlineExceeded
                   THEN [entries |-> <<>>,
                         err |-> "timeout exceeded before starting the query processing"]
                   ELSE @]
    /\ UNCHANGED restOfLabels

\* vmstorage.SearchTagEntries, the substitution of "" and the sort
LabelsSearch ==
    /\ labelq.pc = "search"
    /\ IF labelq.storageErr # Nil
       THEN labelq' = [labelq EXCEPT
                !.pc = "done",
                !.searches = @ + 1,
                !.ret = [entries |-> <<>>,
                         err |-> "error during label entries request"]]
       ELSE \E sorted \in sortSlice([i \in 1..Len(labelq.stored) |->
                                        substituteName(labelq.stored[i])]) :
                labelq' = [labelq EXCEPT
                    !.pc = "done",
                    !.searches = @ + 1,
                    !.ret = [entries |-> sorted, err |-> Nil]]
    /\ UNCHANGED restOfLabels

NextLabels ==
    \/ LabelsDeadlineExpires
    \/ LabelsEnter
    \/ LabelsSearch

SpecLabels == InitLabels /\ [][NextLabels]_vars

(***************************************************************************)
(* SpecUnpack: series workers that call Unpack, the unpack workers, and    *)
(* the two sync.Pools.  unpackWorks and sortBlocks are objects with a      *)
(* name: a pooled object is taken by whoever calls Get next, and Get may   *)
(* also find nothing and make the caller allocate.  An object allocated    *)
(* for unit k of series s of caller c is named <<c, s, k>>, a sortBlock    *)
(* allocated for item i of a unit <<unit, gen, i>>, gen being the number   *)
(* of times the unit was handed out.                                       *)
(*   unpacking.sbs[id]  = [Timestamps, Values, NextIdx, owner]             *)
(*   unpacking.upws[id] = [ws, fetchData, sbs, doneCh, gen, sends,         *)
(*                         decoded, failed]                                *)
(* owner is the series (<<c, s>>) the sortBlock was last taken for; sends, *)
(* decoded and failed count, since the unit was handed out, the sends on   *)
(* its doneCh, the calls of unpackFrom and the sortBlocks the unpack       *)
(* worker gave back.                                                       *)
(***************************************************************************)
\* the series workers that call Unpack
Callers == {1, 2}

\* f with the value v at k
Extend(f, k, v) == [x \in DOMAIN f \cup {k} |-> IF x = k THEN v ELSE f[x]]

\* block n of a series: its rows overlap those of its neighbours
UnpackBlock(n, corrupt) ==
    [StoredBlock(n, <<n, n + 2>>) EXCEPT !.corrupt = corrupt]

\* a series of size blocks of which those in bad cannot be unmarshaled
UnpackSeries(size, bad) == [n \in 1..size |-> UnpackBlock(n, n \in bad)]

\* the time range: block 1 lies before it, and the last row of a series of
\* 2 * unpackBatchSize blocks after it
UnpackRange == [MinTimestamp |-> 4, MaxTimestamp |-> 2 * unpackBatchSize + 1]

\* the blocks that cannot be unmarshaled, for a series of size blocks
BadBlocks(size) ==
    {bad \cap 1..size :
        bad \in {{}, {1}, {size}, {unpackBatchSize + 1}, {2, unpackBatchSize + 1}}}

\* the series of the two callers: a series at a border of the batches
\* followed by a short one for one caller while the other has nothing or a
\* short one, or short ones for both
UnpackInputs ==
    {[c \in Callers |-> IF c = 1
                        THEN <<UnpackSeries(size, bad), UnpackSeries(2, {})>>
                        ELSE other] :
        size \in {unpackBatchSize, unpackBatchSize + 1, 2 * unpackBatchSize},
        bad \in BadBlocks(2 * unpackBatchSize),
        other \in {<<>>}}
    \cup
    {[c \in Callers |-> IF c = 1 THEN <<UnpackSeries(n1, b1)>>
                                 ELSE <<UnpackSeries(n2, b2)>>] :
        n1 \in 0..MaxBlocks, n2 \in 1..2, b1 \in {{}, {2}}, b2 \in {{}, {1}}}

\* func (sb *sortBlock) reset()
sortBlockReset(sb) ==
    [sb EXCEPT !.Timestamps = <<>>, !.Values = <<>>, !.NextIdx = 0]

\* putSortBlock(sb) on the state U: sb.reset() and sbPool.Put(sb)
putSortBlock(U, id) ==
    [U EXCEPT !.sbs[id] = sortBlockReset(@),
              !.doublePut = @ \/ id \in U.sbPool,
              !.sbPool = @ \cup {id}]

\* for _, sb := range sbs { putSortBlock(sb) } from position k on
RECURSIVE putSortBlocks(_, _, _)
putSortBlocks(U, ids, k) ==
    IF k > Len(ids) THEN U ELSE putSortBlocks(putSortBlock(U, ids[k]), ids, k + 1)

\* func (upw *unpackWork) reset(): the BUG panic is noted in U.panic
unpackWorkReset(U, id) ==
    [U EXCEPT !.upws[id].ws = <<>>,
              !.upws[id].fetchData = FALSE,
              !.upws[id].sbs = <<>>,
              !.panic = @ \/ Len(U.upws[id].doneCh) > 0]

\* putUnpackWork(upw)
putUnpackWork(U, id) ==
    [unpackWorkReset(U, id) EXCEPT !.unpackWorkPool = @ \cup {id}]

\* &unpackWork{doneCh: make(chan error, 1)}
newUnpackWork ==
    [ws |-> <<>>, fetchData |-> FALSE, sbs |-> <<>>, doneCh |-> <<>>,
     gen |-> 0, user |-> <<>>, sends |-> 0, decoded |-> 0, failed |-> 0]

\* the locals of a series worker that is in no Unpack; an error is <<>>
\* (nil) or holds one record
IdleCaller(work, s, rets) ==
    [pc |-> "idle", work |-> work, s |-> s, brs0 |-> <<>>, brs |-> <<>>,
     plan |-> <<>>, upws |-> <<>>, fed |-> <<>>, k |-> 0, firstErr |-> <<>>,
     sbs |-> <<>>, errs |-> <<>>, awaited |-> <<>>, putBack |-> <<>>,
     merged |-> FALSE, handed |-> 0, st |-> <<>>, dst |-> EmptyResult,
     rets |-> rets]

InitUnpack ==
    /\ \E input \in UnpackInputs, fetchData \in BOOLEAN :
           unpacking = [sbs |-> <<>>,
                        sbPool |-> {},
                        upws |-> <<>>,
                        unpackWorkPool |-> {},
                        unpackWorkCh |-> <<>>,
                        fetchData |-> fetchData,
                        doublePut |-> FALSE,
                        panic |-> FALSE,
                        callers |-> [c \in Callers |-> IdleCaller(input[c], 0, <<>>)],
                        unpackers |-> [u \in WorkerIDs |->
                                          [pc |-> "idle", upw |-> <<>>, i |-> 0,
                                           err |-> <<>>]]]
    /\ IdleMerge
    /\ IdlePool
    /\ IdleHandles
    /\ psq = <<>>
    /\ vmstorage = <<>>
    /\ ssPool = <<>>
    /\ reordered = <<>>
    /\ rsWorker = <<>>
    /\ labelq = <<>>
    /\ merging = <<>>
    /\ tally = <<>>
    /\ flow = <<>>

\* the metric name of the series of caller c
UnpackName(c) == [id |-> c, corrupt |-> FALSE]

\* Unpack is entered for the next series of caller c: dst.reset(), the
\* metric name is unmarshaled into dst, on whose error Unpack returns, and
\* the split of pts.brs into units is worked out
UnpackEnter(c) ==
    LET me == unpacking.callers[c]
        brs == Head(me.work)
        nameErr == UnmarshalMetricName(UnpackName(c))
        entered == [IdleCaller(me.work, me.s + 1, me.rets) EXCEPT
                       !.brs0 = brs,
                       !.brs = brs,
                       !.dst = ResultReset(me.dst)]
    IN  /\ me.pc = "idle"
        /\ me.work # <<>>
        /\ unpacking' = [unpacking EXCEPT !.callers[c] =
               IF nameErr # Nil
               THEN [entered EXCEPT
                       !.pc = "returned",
                       !.firstErr = <<[msg |-> nameErr, upw |-> <<>>, item |-> 0]>>]
               ELSE [entered EXCEPT
                       !.pc = "feed",
                       !.dst.MetricName = UnpackName(c).id,
                       !.plan = feedUnpackWork(brs, 1,
                                               getUnpackWork(unpacking.fetchData),
                                               <<>>, UnpackRange,
                                               unpacking.fetchData)]]
        /\ UNCHANGED restOfUnpack

\* caller c takes an unpackWork (id: a pooled one, or a new one), fills it
\* with the items of the next unit and sends it on unpackWorkCh; after the
\* last unit pts.brs = pts.brs[:0]
UnpackFeed(c, id) ==
    LET me == unpacking.callers[c]
        k == Len(me.upws) + 1
        pooled == id \in unpacking.unpackWorkPool
        upw0 == IF pooled THEN unpacking.upws[id] ELSE newUnpackWork
        upw == [upw0 EXCEPT !.fetchData = unpacking.fetchData,
                            !.ws = @ \o me.plan[k].ws,
                            !.gen = @ + 1,
                            !.user = <<c, me.s>>,
                            !.sends = 0,
                            !.decoded = 0,
                            !.failed = 0]
        last == k = Len(me.plan)
    IN  /\ me.pc = "feed"
        /\ k <= Len(me.plan)
        /\ pooled \/ id = <<c, me.s, k>>
        /\ Len(unpacking.unpackWorkCh) < unpackWorkChCap
        /\ unpacking' = [unpacking EXCEPT
               !.upws = Extend(@, id, upw),
               !.unpackWorkPool = @ \ {id},
               !.unpackWorkCh = Append(@, id),
               !.callers[c].upws = Append(@, id),
               !.callers[c].fed = Append(@, upw.ws),
               !.callers[c].brs = IF last THEN <<>> ELSE @,
               !.callers[c].pc = IF last THEN "await" ELSE @,
               !.callers[c].k = IF last THEN 1 ELSE @]
        /\ UNCHANGED restOfUnpack

\* unpack worker u receives an unpackWork from unpackWorkCh
UnpackerDequeue(u) ==
    LET ch == unpacking.unpackWorkCh
    IN  /\ unpacking.unpackers[u].pc = "idle"
        /\ Len(ch) > 0
        /\ unpacking' = [unpacking EXCEPT
               !.unpackWorkCh = Tail(ch),
               !.unpackers[u] = [pc |-> IF Len(unpacking.upws[Head(ch)].ws) = 0
                                        THEN "send" ELSE "unpack",
                                 upw |-> Head(ch), i |-> 1, err |-> <<>>]]
        /\ UNCHANGED restOfUnpack

\* a loop of upw.unpack() that goes on with the next item after an error
UnpackerItemSkipFailed(u, sb) ==
    LET me == unpacking.unpackers[u]
        upw == unpacking.upws[me.upw]
        pooled == sb \in unpacking.sbPool
        sb0 == IF pooled
               THEN [Timestamps |-> unpacking.sbs[sb].Timestamps,
                     Values |-> unpacking.sbs[sb].Values,
                     NextIdx |-> unpacking.sbs[sb].NextIdx]
               ELSE getSortBlock
        r == unpackFrom(sb0, upw.ws[me.i].br, upw.ws[me.i].tr, upw.fetchData)
        got == [unpacking EXCEPT
                   !.sbPool = @ \ {sb},
                   !.sbs = Extend(@, sb, [Timestamps |-> r.sb.Timestamps,
                                          Values |-> r.sb.Values,
                                          NextIdx |-> r.sb.NextIdx,
                                          owner |-> upw.user]),
                   !.upws[me.upw].decoded = @ + 1]
        next == IF r.err # Nil
                THEN [putSortBlock(got, sb) EXCEPT !.upws[me.upw].failed = @ + 1]
                ELSE [got EXCEPT !.upws[me.upw].sbs = Append(@, sb)]
    IN  /\ me.pc = "unpack"
        /\ pooled \/ sb = <<me.upw, upw.gen, me.i>>
        /\ unpacking' = [next EXCEPT
               !.unpackers[u].i = @ + 1,
               !.unpackers[u].pc = IF me.i = Len(upw.ws) THEN "send" ELSE @]
        /\ UNCHANGED restOfUnpack

\* one turn of the loop of upw.unpack(): a sortBlock (sb: a pooled one, or
\* a new one) is taken and item i is unpacked into it; it is appended to
\* upw.sbs, or put back on an error, which ends the loop
UnpackerItem(u, sb) ==
    LET me == unpacking.unpackers[u]
        upw == unpacking.upws[me.upw]
        pooled == sb \in unpacking.sbPool
        sb0 == IF pooled
               THEN [Timestamps |-> unpacking.sbs[sb].Timestamps,
                     Values |-> unpacking.sbs[sb].Values,
                     NextIdx |-> unpacking.sbs[sb].NextIdx]
               ELSE getSortBlock
        r == unpackFrom(sb0, upw.ws[me.i].br, upw.ws[me.i].tr, upw.fetchData)
        got == [unpacking EXCEPT
                   !.sbPool = @ \ {sb},
                   !.sbs = Extend(@, sb, [Timestamps |-> r.sb.Timestamps,
                                          Values |-> r.sb.Values,
                                          NextIdx |-> r.sb.NextIdx,
                                          owner |-> upw.user]),
                   !.upws[me.upw].decoded = @ + 1]
    IN  /\ me.pc = "unpack"
        /\ pooled \/ sb = <<me.upw, upw.gen, me.i>>
        /\ unpacking' =
               IF r.err # Nil
               THEN [putSortBlock(got, sb) EXCEPT
                        !.upws[me.upw].failed = @ + 1,
                        !.unpackers[u].pc = "send",
                        !.unpackers[u].err = <<[msg |-> "cannot unpack block",
                                                upw |-> me.upw, item |-> me.i]>>]
               ELSE [got EXCEPT
                        !.upws[me.upw].sbs = Append(@, sb),
                        !.unpackers[u].i = @ + 1,
                        !.unpackers[u].pc = IF me.i = Len(upw.ws)
                                            THEN "send" ELSE @]
        /\ UNCHANGED restOfUnpack

\* upw.doneCh <- err (or nil): the worker waits while the channel is full
UnpackerSend(u) ==
    LET me == unpacking.unpackers[u]
    IN  /\ me.pc = "send"
        /\ Len(unpacking.upws[me.upw].doneCh) < 1
        /\ unpacking' = [unpacking EXCEPT
               !.upws[me.upw].doneCh = Append(@, me.err),
               !.upws[me.upw].sends = @ + 1,
               !.unpackers[u] = [pc |-> "idle", upw |-> <<>>, i |-> 0,
                                 err |-> <<>>]]
        /\ UNCHANGED restOfUnpack

\* a receive that leaves the value on the channel
peekDoneCh(U, id) == U

\* <-upw.doneCh
receiveDoneCh(U, id) == [U EXCEPT !.upws[id].doneCh = Tail(@)]

\* a wait loop that returns at the first error
UnpackAwaitUntilError(c) ==
    LET me == unpacking.callers[c]
        id == me.upws[me.k]
        upw == unpacking.upws[id]
        err == Head(upw.doneCh)
        received == receiveDoneCh(unpacking, id)
        collected == IF err = <<>>
                     THEN received
                     ELSE putSortBlocks(received, upw.sbs, 1)
        last == me.k = Len(me.upws) \/ err # <<>>
    IN  /\ me.pc = "await"
        /\ Len(upw.doneCh) > 0
        /\ unpacking' = [putUnpackWork(collected, id) EXCEPT
               !.callers[c].firstErr = err,
               !.callers[c].sbs = IF err = <<>> THEN @ \o upw.sbs ELSE @,
               !.callers[c].errs = Append(@, err),
               !.callers[c].awaited = Append(@, id),
               !.callers[c].putBack = Append(@, id),
               !.callers[c].k = @ + 1,
               !.callers[c].pc = IF last
                                 THEN IF err # <<>> THEN "returned" ELSE "filter"
                                 ELSE @]
        /\ UNCHANGED restOfUnpack

\* one turn of "Wait until work is complete": caller c receives from the
\* doneCh of its next unit, keeps the first error, takes over upw.sbs or,
\* once there is an error, puts them back, and puts the unit back
UnpackAwait(c) ==
    LET me == unpacking.callers[c]
        id == me.upws[me.k]
        upw == unpacking.upws[id]
        err == Head(upw.doneCh)
        firstErr == IF err # <<>> /\ me.firstErr = <<>> THEN err ELSE me.firstErr
        received == receiveDoneCh(unpacking, id)
        collected == IF firstErr = <<>>
                     THEN received
                     ELSE putSortBlocks(received, upw.sbs, 1)
        last == me.k = Len(me.upws)
    IN  /\ me.pc = "await"
        /\ Len(upw.doneCh) > 0
        /\ unpacking' = [putUnpackWork(collected, id) EXCEPT
               !.callers[c].firstErr = firstErr,
               !.callers[c].sbs = IF firstErr = <<>> THEN @ \o upw.sbs ELSE @,
               !.callers[c].errs = Append(@, err),
               !.callers[c].awaited = Append(@, id),
               !.callers[c].putBack = Append(@, id),
               !.callers[c].k = @ + 1,
               !.callers[c].pc = IF last
                                 THEN IF firstErr # <<>> THEN "returned" ELSE "filter"
                                 ELSE @]
        /\ UNCHANGED restOfUnpack

\* the sortBlock named id as the heap holds it
HeapEntry(id) ==
    [id |-> id,
     Timestamps |-> unpacking.sbs[id].Timestamps,
     Values |-> unpacking.sbs[id].Values,
     NextIdx |-> unpacking.sbs[id].NextIdx]

\* mergeSortBlocks(dst, sbs) up to heap.Init: the empty sortBlocks are put
\* back; with no other the merge returns
UnpackMergeFilter(c) ==
    LET me == unpacking.callers[c]
        src == [n \in 1..Len(me.sbs) |-> HeapEntry(me.sbs[n])]
        sbh == mergeFilter(src)
        empty == SelectSeq(me.sbs,
                           LAMBDA id : Len(unpacking.sbs[id].Timestamps) = 0)
        dst == me.dst
    IN  /\ me.pc = "filter"
        /\ unpacking' = [putSortBlocks(unpacking, empty, 1) EXCEPT
               !.callers[c].merged = TRUE,
               !.callers[c].sbs = <<>>,
               !.callers[c].dst = dst,
               !.callers[c].pc = IF Len(sbh) = 0 THEN "returned" ELSE "merge",
               !.callers[c].handed = Len(src),
               !.callers[c].st = [dst |-> dst,
                                  sbh |-> IF Len(sbh) = 0 THEN <<>> ELSE heapInit(sbh),
                                  done |-> Len(sbh) = 0, panic |-> FALSE,
                                  put |-> Len(src) - Len(sbh)]]
        /\ UNCHANGED restOfUnpack

\* a turn of the loop of the merge that never puts top back
UnpackMergeIterNoPut(c) ==
    LET me == unpacking.callers[c]
        st == mergeIter(me.st)
        dd == DeduplicateSamples(st.dst.Timestamps, st.dst.Values)
    IN  /\ me.pc = "merge"
        /\ unpacking' = [unpacking EXCEPT
               !.callers[c].st = st,
               !.callers[c].dst = IF st.done /\ ~st.panic
                                  THEN [st.dst EXCEPT !.Timestamps = dd.timestamps,
                                                      !.Values = dd.values]
                                  ELSE @,
               !.callers[c].pc = IF st.panic THEN "panicked"
                                 ELSE IF st.done THEN "returned" ELSE @]
        /\ UNCHANGED restOfUnpack

\* one turn of the loop of mergeSortBlocks: top is put back when it is
\* drained, else its NextIdx is set and it is pushed; after the last turn
\* the samples are deduplicated
UnpackMergeIter(c) ==
    LET me == unpacking.callers[c]
        top == me.st.sbh[1]
        st == mergeIter(me.st)
        pushed == {n \in 1..Len(st.sbh) : st.sbh[n].id = top.id}
        U == IF st.put > me.st.put
             THEN putSortBlock(unpacking, top.id)
             ELSE IF st.panic
                  THEN unpacking
                  ELSE [unpacking EXCEPT !.sbs[top.id].NextIdx =
                           st.sbh[CHOOSE n \in pushed : TRUE].NextIdx]
        dd == DeduplicateSamples(st.dst.Timestamps, st.dst.Values)
    IN  /\ me.pc = "merge"
        /\ unpacking' = [U EXCEPT
               !.callers[c].st = st,
               !.callers[c].dst = IF st.done /\ ~st.panic
                                  THEN [st.dst EXCEPT !.Timestamps = dd.timestamps,
                                                      !.Values = dd.values]
                                  ELSE @,
               !.callers[c].pc = IF st.panic THEN "panicked"
                                 ELSE IF st.done THEN "returned" ELSE @]
        /\ UNCHANGED restOfUnpack

\* what a call of Unpack did, as noted at its return
UnpackResult(me) ==
    [err |-> me.firstErr, brs0 |-> me.brs0, brs |-> me.brs, fed |-> me.fed,
     upws |-> me.upws, errs |-> me.errs, awaited |-> me.awaited,
     putBack |-> me.putBack, merged |-> me.merged, handed |-> me.handed,
     put |-> IF me.merged THEN me.st.put ELSE 0, dst |-> me.dst]

\* Unpack returns: what it did is noted, and its locals are gone
UnpackReturn(c) ==
    LET me == unpacking.callers[c]
    IN  /\ me.pc = "returned"
        /\ unpacking' = [unpacking EXCEPT !.callers[c] =
               IdleCaller(Tail(me.work), me.s, Append(me.rets, UnpackResult(me)))]
        /\ UNCHANGED restOfUnpack

NextUnpack ==
    \/ \E c \in Callers : UnpackEnter(c)
    \/ \E c \in Callers :
           \E id \in unpacking.unpackWorkPool \cup
                     {<<c, unpacking.callers[c].s, Len(unpacking.callers[c].upws) + 1>>} :
               UnpackFeed(c, id)
    \/ \E u \in WorkerIDs : UnpackerDequeue(u)
    \/ \E u \in WorkerIDs :
           /\ unpacking.unpackers[u].pc = "unpack"
           /\ \E sb \in unpacking.sbPool \cup
                        {<<unpacking.unpackers[u].upw,
                           unpacking.upws[unpacking.unpackers[u].upw].gen,
                           unpacking.unpackers[u].i>>} :
                  UnpackerItem(u, sb)
    \/ \E u \in WorkerIDs : UnpackerSend(u)
    \/ \E c \in Callers : UnpackAwait(c)
    \/ \E c \in Callers : UnpackMergeFilter(c)
    \/ \E c \in Callers : UnpackMergeIter(c)
    \/ \E c \in Callers : UnpackReturn(c)

SpecUnpack == InitUnpack /\ [][NextUnpack]_vars

(***************************************************************************)
(* SpecHeap: mergeSortBlocks on its own, one heap operation after the      *)
(* other.  merging is                                                      *)
(*   [pc, src, st, iters, last]                                            *)
(* src: the sortBlocks handed in, each with the position id it has in src, *)
(* st: the state of the merge, iters: the turns of the loop so far, last:  *)
(* what the last turn did (<<>> before the first).  The heap is seen       *)
(* before heap.Init, before every heap.Pop and after every heap.Push.      *)
(***************************************************************************)
\* the sortBlocks unpacked from blocks with the given timestamps
HeapBlocks(tsl) ==
    [n \in 1..Len(tsl) |->
        [id |-> n, Timestamps |-> tsl[n],
         Values |-> [k \in 1..Len(tsl[n]) |-> 10 * n + k], NextIdx |-> 0]]

\* the timestamps of the blocks of a series: many blocks, or many samples
HeapInputs ==
    TimestampLists(MaxBlocks, MaxSamples - 1) \cup
    TimestampLists(MaxBlocks - 1, MaxSamples)

InitHeap ==
    /\ \E tsl \in HeapInputs :
           merging = [pc |-> "filter", src |-> HeapBlocks(tsl), st |-> <<>>,
                      iters |-> 0, last |-> <<>>]
    /\ IdleMerge
    /\ IdlePool
    /\ IdleHandles
    /\ psq = <<>>
    /\ vmstorage = <<>>
    /\ ssPool = <<>>
    /\ reordered = <<>>
    /\ rsWorker = <<>>
    /\ labelq = <<>>
    /\ unpacking = <<>>
    /\ tally = <<>>
    /\ flow = <<>>

\* the empty sortBlocks are skipped and put back; with no other the merge
\* returns
HeapFilter ==
    LET sbh == mergeFilter(merging.src)
    IN  /\ merging.pc = "filter"
        /\ merging' = [merging EXCEPT
               !.st = [dst |-> EmptyResult, sbh |-> sbh, done |-> Len(sbh) = 0,
                       panic |-> FALSE, put |-> Len(merging.src) - Len(sbh)],
               !.pc = IF Len(sbh) = 0 THEN "done" ELSE "init"]
        /\ UNCHANGED restOfHeap

\* heap.Init(&sbh)
HeapInit ==
    /\ merging.pc = "init"
    /\ merging' = [merging EXCEPT !.st.sbh = heapInit(@), !.pc = "loop"]
    /\ UNCHANGED restOfHeap

\* one turn of the for loop: heap.Pop, the choice of idxNext, the appends,
\* and heap.Push or putSortBlock
HeapIter ==
    LET st == mergeIter(merging.st)
        top == merging.st.sbh[1]
        pushed == {n \in 1..Len(st.sbh) : st.sbh[n].id = top.id}
    IN  /\ merging.pc = "loop"
        /\ merging' = [merging EXCEPT
               !.st = st,
               !.iters = @ + 1,
               !.last = [top |-> top,
                         emitted |-> Len(st.dst.Timestamps) -
                                     Len(merging.st.dst.Timestamps),
                         pushed |-> pushed # {},
                         idxNext |-> IF pushed = {}
                                     THEN Len(top.Timestamps)
                                     ELSE st.sbh[CHOOSE n \in pushed : TRUE].NextIdx],
               !.pc = IF st.panic THEN "panicked"
                      ELSE IF st.done THEN "dedup" ELSE "loop"]
        /\ UNCHANGED restOfHeap

\* timestamps, values := storage.DeduplicateSamples(...)
HeapDedup ==
    LET dd == DeduplicateSamples(merging.st.dst.Timestamps, merging.st.dst.Values)
    IN  /\ merging.pc = "dedup"
        /\ merging' = [merging EXCEPT
               !.st.dst = [@ EXCEPT !.Timestamps = dd.timestamps,
                                    !.Values = dd.values],
               !.pc = "done"]
        /\ UNCHANGED restOfHeap

NextHeap == HeapFilter \/ HeapInit \/ HeapIter \/ HeapDedup

SpecHeap == InitHeap /\ [][NextHeap]_vars

\* mergeSortBlocks runs on: its goroutine is not stopped for ever
SpecHeapFair == SpecHeap /\ WF_vars(NextHeap)

(***************************************************************************)
(* SpecRows: one RunParallel and the series workers, with the write of     *)
(* tsw.rowsProcessed, the send on tsw.doneCh, the receive from it and the  *)
(* read of tsw.rowsProcessed as steps of their own.  tally is              *)
(*   [fetchData, deadlineExceeded, packedTimeseries, tsws, ch, caller,     *)
(*    workers, hist]                                                       *)
(* tsws[k] is [pts, doneCh, rowsProcessed, orig, sent, writes, reads]:     *)
(* orig is the series as it was enqueued, sent holds every value sent on   *)
(* doneCh, writes and reads count the accesses to rowsProcessed.  hist     *)
(* holds the updates of the two histograms.                                *)
(***************************************************************************)
\* a worker that sends the completion before it writes tsw.rowsProcessed
workerNextSendFirst(pc) ==
    CASE pc = "callback" -> "send"
      [] pc = "send" -> "write"
      [] OTHER -> "idle"

\* the statement of timeseriesWorker that follows the callback, the write
\* of tsw.rowsProcessed and the send of nil
workerNext(pc) ==
    CASE pc = "callback" -> "write"
      [] pc = "write" -> "send"
      [] OTHER -> "idle"

InitRows ==
    /\ \E kinds \in KindLists(MaxSeries), fetchData \in BOOLEAN,
          start \in [WorkerIDs -> WorkerStarts] :
           tally = [fetchData |-> fetchData,
                    deadlineExceeded |-> FALSE,
                    packedTimeseries |->
                        [k \in 1..Len(kinds) |-> SeriesOfKind(kinds[k], k)],
                    tsws |-> <<>>,
                    ch |-> <<>>,
                    caller |-> [pc |-> "feed", i |-> 0, firstErr |-> NilErr,
                                rowsProcessedTotal |-> 0],
                    workers |-> [w \in WorkerIDs |->
                                    [pc |-> "idle", tsw |-> 0, rs |-> EmptyResult,
                                     err |-> NilErr, up |-> NoUnpack,
                                     cap |-> start[w].cap,
                                     rsLastResetTime |-> start[w].rsLastResetTime]],
                    hist |-> <<>>]
    /\ IdleMerge
    /\ IdlePool
    /\ IdleResults
    /\ UnpackWorkersStarted
    /\ psq = <<>>
    /\ vmstorage = <<>>
    /\ ssPool = <<>>
    /\ reordered = <<>>
    /\ rsWorker = <<>>
    /\ labelq = <<>>
    /\ unpacking = <<>>
    /\ merging = <<>>
    /\ flow = <<>>

\* the deadline passes
RowsDeadlineExpires ==
    /\ ~tally.deadlineExceeded
    /\ tally' = [tally EXCEPT !.deadlineExceeded = TRUE]
    /\ UNCHANGED restOfRows

\* one turn of "Feed workers with work"; after the last one
\* rowsProcessedTotal := 0
RowsFeed ==
    LET k == Len(tally.tsws) + 1
    IN  /\ tally.caller.pc = "feed"
        /\ k <= Len(tally.packedTimeseries)
        /\ Len(tally.ch) < timeseriesWorkChCap
        /\ tally' = [tally EXCEPT
               !.tsws = Append(@, [pts |-> tally.packedTimeseries[k],
                                   doneCh |-> <<>>, rowsProcessed |-> 0,
                                   orig |-> tally.packedTimeseries[k],
                                   sent |-> <<>>, writes |-> 0, reads |-> 0]),
               !.ch = Append(@, k)]
        /\ UNCHANGED restOfRows

\* the feeding loop has ended:
\* rss.packedTimeseries = rss.packedTimeseries[:0]
RowsFeedDone ==
    /\ tally.caller.pc = "feed"
    /\ Len(tally.tsws) = Len(tally.packedTimeseries)
    /\ tally' = [tally EXCEPT
           !.packedTimeseries = <<>>,
           !.caller.pc = IF Len(tally.tsws) = 0 THEN "update" ELSE "receive",
           !.caller.i = 1]
    /\ UNCHANGED restOfRows

\* if err := <-tsw.doneCh; err != nil && firstErr == nil { firstErr = err }
RowsReceive ==
    LET k == tally.caller.i
    IN  /\ tally.caller.pc = "receive"
        /\ Len(tally.tsws[k].doneCh) > 0
        /\ tally' = [tally EXCEPT
               !.tsws[k].doneCh = Tail(@),
               !.caller.firstErr = keepErr(@, tally.tsws[k].doneCh[1]),
               !.caller.pc = "read"]
        /\ UNCHANGED restOfRows

\* rowsProcessedTotal += tsw.rowsProcessed
RowsRead ==
    LET k == tally.caller.i
    IN  /\ tally.caller.pc = "read"
        /\ tally' = [tally EXCEPT
               !.tsws[k].reads = @ + 1,
               !.caller.rowsProcessedTotal = @ + tally.tsws[k].rowsProcessed,
               !.caller.i = @ + 1,
               !.caller.pc = IF k = Len(tally.tsws) THEN "update" ELSE "receive"]
        /\ UNCHANGED restOfRows

\* perQueryRowsProcessed.Update(float64(rowsProcessedTotal));
\* perQuerySeriesProcessed.Update(float64(seriesProcessedTotal));
\* return firstErr
RowsReturn ==
    /\ tally.caller.pc = "update"
    /\ tally' = [tally EXCEPT
           !.hist = Append(@, [rows |-> tally.caller.rowsProcessedTotal,
                               series |-> Len(tally.tsws)]),
           !.caller.pc = "returned"]
    /\ UNCHANGED restOfRows

\* worker w receives a unit and checks the deadline
RowsDequeue(w) ==
    /\ tally.workers[w].pc = "idle"
    /\ Len(tally.ch) > 0
    /\ tally' = [tally EXCEPT
           !.ch = Tail(@),
           !.workers[w].tsw = Head(tally.ch),
           !.workers[w].err = IF tally.deadlineExceeded
                              THEN TimeoutErr(Head(tally.ch)) ELSE NilErr,
           !.workers[w].pc = IF tally.deadlineExceeded THEN "fail" ELSE "unpack"]
    /\ UNCHANGED restOfRows

\* worker w in tsw.pts.Unpack(&rs, rss.tr, rss.fetchData), up to
\* pts.brs = pts.brs[:0], which is seen in rss.packedTimeseries, where
\* tsw.pts points to, while that slice still has its length: a step sends
\* one unit on unpackWorkCh, waiting while the channel is full
RowsUnpackFeed(w) ==
    LET k == tally.workers[w].tsw
        r == unpackFeed(tally.tsws[k].pts, tally.workers[w].rs, QueryRange,
                        tally.fetchData, tally.workers[w].up)
    IN  /\ tally.workers[w].pc = "unpack"
        /\ r.sent => Len(unpackWorkCh) < unpackWorkChCap
        /\ unpackWorkCh' = IF r.sent
                           THEN Append(unpackWorkCh, [w |-> w, n |-> Len(r.U.upws)])
                           ELSE unpackWorkCh
        /\ tally' = [tally EXCEPT
               !.tsws[k].pts.brs = r.brs,
               !.packedTimeseries = IF k <= Len(@)
                                    THEN [@ EXCEPT ![k].brs = r.brs]
                                    ELSE @,
               !.workers[w].rs = r.dst,
               !.workers[w].up = r.U,
               !.workers[w].err = IF r.err # Nil THEN UnpackErr(k, r.err) ELSE NilErr,
               !.workers[w].pc = IF r.err # Nil THEN "fail"
                                 ELSE IF r.last THEN "collect" ELSE @]
        /\ UNCHANGED unpackers
        /\ UNCHANGED restOfRowsUnpack

\* unpack worker u runs upw.unpack() and sends on upw.doneCh
RowsUnpackWork(u) ==
    LET w == unpackers[u].w
        n == unpackers[u].n
    IN  /\ unpackers[u].pc = "unpack"
        /\ tally' = [tally EXCEPT
               !.workers[w].up = unpackWorkDone(@, n, unpack(@.upws[n]))]
        /\ unpackers' = [unpackers EXCEPT ![u].pc = "idle"]
        /\ UNCHANGED unpackWorkCh
        /\ UNCHANGED restOfRowsUnpack

\* worker w in the waiting loop of Unpack: a step receives from the
\* doneCh of the next unit; after the last one Unpack returns the first
\* error or merges the sortBlocks into rs, where append leaves rs.Values a
\* capacity c, and the worker goes on to the callback if it is due
RowsUnpackCollect(w) ==
    LET k == tally.workers[w].tsw
    IN  /\ tally.workers[w].pc = "collect"
        /\ tally.workers[w].up.done[tally.workers[w].up.k + 1] # <<>>
        /\ \E r \in {unpackCollect(tally.workers[w].rs, tally.workers[w].up)} :
           \E c \in IF r.last /\ r.ret.err = Nil
                     THEN {mergeSortBlocksCap(tally.workers[w].cap,
                                              tally.workers[w].rs, r.ret.sbs)}
                     ELSE {tally.workers[w].cap} :
               tally' = [tally EXCEPT
                   !.workers[w].rs = r.ret.dst,
                   !.workers[w].up = r.U,
                   !.workers[w].cap = c,
                   !.workers[w].err = IF r.ret.err # Nil THEN UnpackErr(k, r.ret.err)
                                                     ELSE NilErr,
                   !.workers[w].pc = IF ~r.last THEN @
                                     ELSE IF r.ret.err # Nil THEN "fail"
                                     ELSE IF callbackDue(r.ret.dst, tally.fetchData)
                                          THEN "callback"
                                          ELSE workerNext("callback")]
        /\ UNCHANGED <<unpackWorkCh, unpackers>>
        /\ UNCHANGED restOfRowsUnpack

\* tsw.f(&rs, workerID) returns
RowsCallback(w) ==
    /\ tally.workers[w].pc = "callback"
    /\ tally' = [tally EXCEPT !.workers[w].pc = workerNext("callback")]
    /\ UNCHANGED restOfRows

\* tsw.rowsProcessed = len(rs.Values)
RowsWrite(w) ==
    LET k == tally.workers[w].tsw
    IN  /\ tally.workers[w].pc = "write"
        /\ tally' = [tally EXCEPT
               !.tsws[k].rowsProcessed = Len(tally.workers[w].rs.Values),
               !.tsws[k].writes = @ + 1,
               !.workers[w].pc = workerNext("write")]
        /\ UNCHANGED restOfRows

\* tsw.doneCh <- nil; then currentTime := fasttime.UnixTimestamp() and the
\* reset policy, after which the worker is back at the receive from
\* timeseriesWorkCh
RowsSend(w) ==
    LET k == tally.workers[w].tsw
    IN  /\ tally.workers[w].pc = "send"
        /\ Len(tally.tsws[k].doneCh) < 1
        /\ \E currentTime \in FinishTimes :
               tally' = [tally EXCEPT
                   !.tsws[k].doneCh = Append(@, NilErr),
                   !.tsws[k].sent = Append(@, NilErr),
                   !.workers[w] = [resetPolicy(@, currentTime) EXCEPT
                                      !.pc = workerNext("send")]]
        /\ UNCHANGED restOfRows

\* tsw.doneCh <- fmt.Errorf(...); continue
RowsSendError(w) ==
    LET k == tally.workers[w].tsw
    IN  /\ tally.workers[w].pc = "fail"
        /\ Len(tally.tsws[k].doneCh) < 1
        /\ tally' = [tally EXCEPT
               !.tsws[k].doneCh = Append(@, tally.workers[w].err),
               !.tsws[k].sent = Append(@, tally.workers[w].err),
               !.workers[w].pc = "idle"]
        /\ UNCHANGED restOfRows

NextRows ==
    \/ RowsDeadlineExpires
    \/ RowsFeed
    \/ RowsFeedDone
    \/ RowsReceive
    \/ RowsRead
    \/ RowsReturn
    \/ \E w \in WorkerIDs : RowsDequeue(w)
    \/ \E w \in WorkerIDs : RowsUnpackFeed(w)
    \/ \E u \in WorkerIDs : UnpackWorkerDequeue(u)
    \/ \E u \in WorkerIDs : RowsUnpackWork(u)
    \/ \E w \in WorkerIDs : RowsUnpackCollect(w)
    \/ \E w \in WorkerIDs : RowsCallback(w)
    \/ \E w \in WorkerIDs : RowsWrite(w)
    \/ \E w \in WorkerIDs : RowsSend(w)
    \/ \E w \in WorkerIDs : RowsSendError(w)

SpecRows == InitRows /\ [][NextRows]_vars

(***************************************************************************)
(* SpecFlow: the goroutines and the channels alone.  Callers run           *)
(* RunParallel, the series workers run Unpack and the callback, the unpack *)
(* workers run unpack(); what the series hold is left out, a series being  *)
(*   [units, bad, corrupt]                                                 *)
(* the number of unpackWorks its blocks fill, whether a block of it cannot *)
(* be unmarshaled and whether its metric name cannot.  gomaxprocs, which   *)
(* the process reads once when it starts, is part of the input.  flow is   *)
(*   [gomaxprocs, deadlineExceeded, callers, works, workCh, workers,       *)
(*    unpackWorkCh, waited]                                                *)
(* works[k].doneCh is tsw.doneCh, workers[w].done[n] the doneCh of the     *)
(* n-th unpackWork of the Unpack worker w is in.  waited records the       *)
(* callers and the series workers that had more to send when their channel *)
(* was filled, so that their next send had to wait for a receiver.         *)
(***************************************************************************)
\* n series of the given number of units each
FlowSeries(n, units, bad, corrupt) ==
    [k \in 1..n |-> [units |-> units, bad |-> k \in bad, corrupt |-> k \in corrupt]]

\* the capacity of timeseriesWorkCh when gomaxprocs is n
FlowTimeseriesWorkChCap(n) == n * 16

\* the capacity of unpackWorkCh when gomaxprocs is n
FlowUnpackWorkChCap(n) == n * 128

\* the value of gomaxprocs, the callers of RunParallel and their series.
\* On one processor two concurrent callers of more series than
\* timeseriesWorkCh holds, so that both wait at the full channel, one with
\* a block and one with a metric name that cannot be unmarshaled; and a
\* caller of a series of more units than unpackWorkCh holds, with a
\* deadline that never passes.  On gomaxprocs processors a caller of a
\* series of two units, with a deadline that may pass, and a caller of
\* series of one unit
FlowInputs ==
    {[gomaxprocs |-> 1,
      callers |-> <<[mayExpire |-> FALSE,
                     series |-> FlowSeries(FlowTimeseriesWorkChCap(1) + 1, 1, {2}, {})],
                    [mayExpire |-> FALSE,
                     series |-> FlowSeries(1, 1, {}, {1})]>>]}
    \cup
    {[gomaxprocs |-> 1,
      callers |-> <<[mayExpire |-> FALSE,
                     series |-> FlowSeries(1, FlowUnpackWorkChCap(1) + 1, bad, {})]>>] :
        bad \in {{}, {1}}}
    \cup
    {[gomaxprocs |-> gomaxprocs,
      callers |-> <<[mayExpire |-> TRUE,
                     series |-> FlowSeries(1, 2, bad, {})],
                    [mayExpire |-> FALSE,
                     series |-> FlowSeries(n2, 1, {1}, {})]>>] :
        bad \in {{}, {1}}, n2 \in 1..MaxSeries}

\* the callers of RunParallel
FlowCallers == DOMAIN flow.callers

\* the series workers, and the unpack workers: gomaxprocs of each
FlowWorkerIDs == 1..flow.gomaxprocs

InitFlow ==
    /\ \E input \in FlowInputs :
           flow = [gomaxprocs |-> input.gomaxprocs,
                   deadlineExceeded |-> [q \in DOMAIN input.callers |-> FALSE],
                   callers |-> [q \in DOMAIN input.callers |->
                                   [pc |-> "ready",
                                    series |-> input.callers[q].series,
                                    mayExpire |-> input.callers[q].mayExpire,
                                    tsws |-> <<>>, i |-> 0]],
                   works |-> <<>>,
                   workCh |-> <<>>,
                   workers |-> [w \in 1..input.gomaxprocs |->
                                   [pc |-> "idle", tsw |-> 0, fed |-> 0,
                                    done |-> <<>>, k |-> 0, failed |-> FALSE]],
                   unpackWorkCh |-> <<>>,
                   waited |-> [callers |-> {}, workers |-> {}]]
    /\ IdleMerge
    /\ IdlePool
    /\ IdleHandles
    /\ psq = <<>>
    /\ vmstorage = <<>>
    /\ ssPool = <<>>
    /\ reordered = <<>>
    /\ rsWorker = <<>>
    /\ labelq = <<>>
    /\ unpacking = <<>>
    /\ merging = <<>>
    /\ tally = <<>>

\* the deadline of caller q passes
FlowDeadlineExpires(q) ==
    /\ flow.callers[q].mayExpire
    /\ ~flow.deadlineExceeded[q]
    /\ flow' = [flow EXCEPT !.deadlineExceeded[q] = TRUE]
    /\ UNCHANGED restOfFlow

\* caller q enters RunParallel
FlowCall(q) ==
    /\ flow.callers[q].pc = "ready"
    /\ flow' = [flow EXCEPT !.callers[q].pc = "feed"]
    /\ UNCHANGED restOfFlow

\* timeseriesWorkCh <- tsw: the caller waits while the channel is full
FlowFeed(q) ==
    LET me == flow.callers[q]
        k == Len(flow.works) + 1
    IN  /\ me.pc = "feed"
        /\ Len(me.tsws) < Len(me.series)
        /\ Len(flow.workCh) < FlowTimeseriesWorkChCap(flow.gomaxprocs)
        /\ flow' = [flow EXCEPT
               !.works = Append(@, [rss |-> q,
                                    series |-> me.series[Len(me.tsws) + 1],
                                    doneCh |-> <<>>]),
               !.workCh = Append(@, k),
               !.callers[q].tsws = Append(@, k),
               !.waited.callers =
                   IF Len(flow.workCh) + 1 = FlowTimeseriesWorkChCap(flow.gomaxprocs)
                   THEN @ \cup {c \in FlowCallers :
                                  /\ flow.callers[c].pc = "feed"
                                  /\ Len(flow.callers[c].tsws) + (IF c = q THEN 1 ELSE 0)
                                         < Len(flow.callers[c].series)}
                   ELSE @]
        /\ UNCHANGED restOfFlow

\* the feeding loop has ended
FlowFeedDone(q) ==
    LET me == flow.callers[q]
    IN  /\ me.pc = "feed"
        /\ Len(me.tsws) = Len(me.series)
        /\ flow' = [flow EXCEPT !.callers[q].pc = "wait", !.callers[q].i = 0]
        /\ UNCHANGED restOfFlow

\* <-tsw.doneCh: the caller waits until the worker of the unit has sent
FlowAwait(q) ==
    LET me == flow.callers[q]
        k == me.tsws[me.i + 1]
    IN  /\ me.pc = "wait"
        /\ me.i < Len(me.tsws)
        /\ Len(flow.works[k].doneCh) > 0
        /\ flow' = [flow EXCEPT !.works[k].doneCh = Tail(@),
                                !.callers[q].i = @ + 1]
        /\ UNCHANGED restOfFlow

\* RunParallel returns
FlowReturn(q) ==
    LET me == flow.callers[q]
    IN  /\ me.pc = "wait"
        /\ me.i = Len(me.tsws)
        /\ flow' = [flow EXCEPT !.callers[q].pc = "returned"]
        /\ UNCHANGED restOfFlow

\* tsw.doneCh <- err on the unit k: the sender waits while the channel of
\* capacity 1 is full
FlowSendDone(F, k, err) ==
    [F EXCEPT !.works[k].doneCh = Append(@, err)]

\* a series worker that goes on with the next unit when the deadline is
\* exceeded, without sending on tsw.doneCh
FlowDequeueDropsTimedOut(w) ==
    LET k == Head(flow.workCh)
        taken == [flow EXCEPT !.workCh = Tail(@)]
    IN  /\ flow.workers[w].pc = "idle"
        /\ Len(flow.workCh) > 0
        /\ flow' = IF flow.deadlineExceeded[flow.works[k].rss]
                   THEN taken
                   ELSE [taken EXCEPT
                            !.workers[w] =
                                [pc |-> "unpack",
                                 tsw |-> k, fed |-> 0, done |-> <<>>, k |-> 0,
                                 failed |-> FALSE]]
        /\ UNCHANGED restOfFlow

\* series worker w receives a unit and checks the deadline: if it is
\* exceeded it sends the timeout error and goes on with the next unit;
\* else it enters Unpack, which sends at least one unit on unpackWorkCh
\* whatever the series holds
FlowDequeue(w) ==
    LET k == Head(flow.workCh)
        taken == [flow EXCEPT !.workCh = Tail(@)]
    IN  /\ flow.workers[w].pc = "idle"
        /\ Len(flow.workCh) > 0
        /\ IF flow.deadlineExceeded[flow.works[k].rss]
           THEN /\ Len(flow.works[k].doneCh) < 1
                /\ flow' = FlowSendDone(taken, k, "timeout")
           ELSE flow' = [taken EXCEPT
                            !.workers[w] =
                                [pc |-> "unpack",
                                 tsw |-> k, fed |-> 0, done |-> <<>>, k |-> 0,
                                 failed |-> FALSE]]
        /\ UNCHANGED restOfFlow

\* series worker w in Unpack up to the waiting loop.  When the metric
\* name cannot be unmarshaled Unpack returns the error before it sends
\* anything, and the series worker sends it on tsw.doneCh and goes on with
\* the next unit; else a step is unpackWorkCh <- upw, where the series
\* worker waits while the channel is full
FlowUnpackFeed(w) ==
    LET me == flow.workers[w]
        series == flow.works[me.tsw].series
        units == series.units
    IN  /\ me.pc = "unpack"
        /\ IF series.corrupt
           THEN /\ Len(flow.works[me.tsw].doneCh) < 1
                /\ flow' = [FlowSendDone(flow, me.tsw, "error") EXCEPT
                               !.workers[w].pc = "idle"]
           ELSE /\ me.fed < units
                /\ Len(flow.unpackWorkCh) < FlowUnpackWorkChCap(flow.gomaxprocs)
                /\ flow' = [flow EXCEPT
                       !.unpackWorkCh = Append(@, [w |-> w, n |-> me.fed + 1]),
                       !.workers[w].fed = @ + 1,
                       !.waited.workers =
                           IF Len(flow.unpackWorkCh) + 1 =
                                  FlowUnpackWorkChCap(flow.gomaxprocs)
                           THEN @ \cup {x \in FlowWorkerIDs :
                                          /\ flow.workers[x].pc = "unpack"
                                          /\ ~flow.works[flow.workers[x].tsw].series.corrupt
                                          /\ flow.workers[x].fed + (IF x = w THEN 1 ELSE 0)
                                                 < flow.works[flow.workers[x].tsw].series.units}
                           ELSE @,
                       !.workers[w].done = Append(@, <<>>),
                       !.workers[w].pc = IF me.fed + 1 = units THEN "collect" ELSE @,
                       !.workers[w].k = IF me.fed + 1 = units THEN 1 ELSE @]
        /\ UNCHANGED restOfFlow

\* <-upw.doneCh in Unpack: the series worker waits until the unpack
\* worker has sent; after the last unit Unpack returns, and on an error
\* the series worker sends it on tsw.doneCh and goes on with the next unit
FlowUnpackAwait(w) ==
    LET me == flow.workers[w]
        last == me.k = me.fed
        failed == me.failed \/ me.done[me.k] = <<"error">>
        tookOne == [flow EXCEPT !.workers[w].done[me.k] = <<>>,
                                !.workers[w].k = @ + 1,
                                !.workers[w].failed = failed]
    IN  /\ me.pc = "collect"
        /\ me.done[me.k] # <<>>
        /\ IF last /\ failed
           THEN /\ Len(flow.works[me.tsw].doneCh) < 1
                /\ flow' = [FlowSendDone(tookOne, me.tsw, "error") EXCEPT
                               !.workers[w].pc = "idle"]
           ELSE flow' = [tookOne EXCEPT
                            !.workers[w].pc = IF last THEN "callback" ELSE @]
        /\ UNCHANGED restOfFlow

\* the callback tsw.f(&rs, workerID) returns
FlowCallbackReturn(w) ==
    /\ flow.workers[w].pc = "callback"
    /\ flow' = [flow EXCEPT !.workers[w].pc = "finish"]
    /\ UNCHANGED restOfFlow

\* tsw.doneCh <- nil
FlowFinish(w) ==
    LET me == flow.workers[w]
    IN  /\ me.pc = "finish"
        /\ Len(flow.works[me.tsw].doneCh) < 1
        /\ flow' = [FlowSendDone(flow, me.tsw, "nil") EXCEPT
                       !.workers[w].pc = "idle"]
        /\ UNCHANGED restOfFlow

\* one turn of the loop of unpack worker u: it receives an unpackWork,
\* unmarshals its blocks and sends the error or nil on upw.doneCh, a
\* channel of capacity 1
FlowUnpackWorker(u) ==
    LET upw == Head(flow.unpackWorkCh)
        bad == upw.n = 1 /\ flow.works[flow.workers[upw.w].tsw].series.bad
    IN  /\ Len(flow.unpackWorkCh) > 0
        /\ flow.workers[upw.w].done[upw.n] = <<>>
        /\ flow' = [flow EXCEPT
               !.unpackWorkCh = Tail(@),
               !.workers[upw.w].done[upw.n] =
                   IF bad THEN <<"error">> ELSE <<"nil">>]
        /\ UNCHANGED restOfFlow

NextFlow ==
    \/ \E q \in FlowCallers : FlowDeadlineExpires(q)
    \/ \E q \in FlowCallers : FlowCall(q)
    \/ \E q \in FlowCallers : FlowFeed(q)
    \/ \E q \in FlowCallers : FlowFeedDone(q)
    \/ \E q \in FlowCallers : FlowAwait(q)
    \/ \E q \in FlowCallers : FlowReturn(q)
    \/ \E w \in FlowWorkerIDs : FlowDequeue(w)
    \/ \E w \in FlowWorkerIDs : FlowUnpackFeed(w)
    \/ \E w \in FlowWorkerIDs : FlowUnpackAwait(w)
    \/ \E w \in FlowWorkerIDs : FlowCallbackReturn(w)
    \/ \E w \in FlowWorkerIDs : FlowFinish(w)
    \/ \E u \in FlowWorkerIDs : FlowUnpackWorker(u)

SpecFlow == InitFlow /\ [][NextFlow]_vars

\* every goroutine that can take a step is scheduled in the end, and every
\* callback and every unmarshaling of a block returns
SpecFlowFair == SpecFlow /\ WF_vars(NextFlow)

(***************************************************************************)
(* Properties of the merged Result (SpecMerge).                            *)
(***************************************************************************)
\* the number of samples of the parallel sequences equal to s
CountOf(timestamps, values, s) ==
    Cardinality({k \in 1..Len(timestamps) : <<timestamps[k], values[k]>> = s})

\* the float value of row k of a stored block: decimal_to_float(val, scale)
StoredValue(br, k) == br.values[k] * Pow10(br.scale)

\* the number of rows of the stored blocks from n on that lie in tr and
\* are equal to the sample s
RECURSIVE StoredCount(_, _, _, _)
StoredCount(brs, n, tr, s) ==
    IF n > Len(brs)
    THEN 0
    ELSE Cardinality({k \in 1..Len(brs[n].timestamps) :
                        /\ tr.MinTimestamp <= brs[n].timestamps[k]
                        /\ brs[n].timestamps[k] <= tr.MaxTimestamp
                        /\ <<brs[n].timestamps[k], StoredValue(brs[n], k)>> = s})
         + StoredCount(brs, n + 1, tr, s)

\* every sample that is stored in a block of the series or was emitted
AllSamples ==
    {<<mpre.Timestamps[k], mpre.Values[k]>> : k \in 1..Len(mpre.Timestamps)} \cup
    UNION {{<<mstored[n].timestamps[k], StoredValue(mstored[n], k)>> :
               k \in 1..Len(mstored[n].timestamps)} : n \in 1..Len(mstored)}

\* the samples emitted before deduplication are, as a multiset, the stored
\* samples of the series that lie in tr
EmittedIsStoredInRange ==
    /\ Len(mpre.Timestamps) = Len(mpre.Values)
    /\ \A s \in AllSamples :
           CountOf(mpre.Timestamps, mpre.Values, s) = StoredCount(mstored, 1, mtr, s)

\* two of the decoded blocks overlap in time
BlocksOverlap ==
    \E a, b \in 1..Len(msbs) :
        /\ a # b
        /\ Len(msbs[a].Timestamps) > 1
        /\ Len(msbs[b].Timestamps) > 0
        /\ msbs[a].Timestamps[1] < msbs[b].Timestamps[1]
        /\ msbs[b].Timestamps[1] < msbs[a].Timestamps[Len(msbs[a].Timestamps)]

\* C1: the Timestamps of the Result passed to the callback are
\* non-decreasing, for any number of non-decreasing input blocks and any
\* overlap between them.
C1_CallbackTimestampsNonDecreasing ==
    mcb.called => IsNonDecreasing(mcb.rs.Timestamps)

\* the callback got the merge of three blocks, two of which overlap
C1_Witness ==
    /\ mcb.called
    /\ Len(mergeFilter(msbs)) = 3
    /\ BlocksOverlap

\* Unpack has returned to the worker
MUnpackReturned == mpc \in {"unpacked", "failed", "done"}

\* C2 as stated: for every series (whatever fetchData is) the samples
\* appended by mergeSortBlocks before deduplication are exactly the stored
\* samples of the series in [tr.MinTimestamp, tr.MaxTimestamp].
C2_AsStated ==
    MUnpackReturned => EmittedIsStoredInRange

\* C2 as amended: when fetchData is true, the samples appended before
\* deduplication are, as a multiset, the stored samples of the series in
\* [tr.MinTimestamp, tr.MaxTimestamp]; when fetchData is false no block
\* data is read and no sample is appended.
C2_EmittedMultiset ==
    MUnpackReturned =>
        IF mfetchData
        THEN EmittedIsStoredInRange
        ELSE mpre.Timestamps = <<>> /\ mpre.Values = <<>>

\* fetchData is true, rows were cut off, and the same timestamp came out
\* of two blocks
C2_Witness ==
    /\ mpc = "done"
    /\ mfetchData
    /\ Len(mergeFilter(msbs)) >= 2
    /\ \E n \in 1..Len(mstored) :
           Len(mstored[n].timestamps) > Len(msbs[n].Timestamps)
    /\ \E k \in 1..(Len(mpre.Timestamps) - 1) :
           mpre.Timestamps[k] = mpre.Timestamps[k + 1]

\* C3: every sample of a Result passed to the callback lies in
\* [tr.MinTimestamp, tr.MaxTimestamp].
C3_CallbackSamplesInRange ==
    mcb.called =>
        \A k \in 1..Len(mcb.rs.Timestamps) :
            /\ mtr.MinTimestamp <= mcb.rs.Timestamps[k]
            /\ mcb.rs.Timestamps[k] <= mtr.MaxTimestamp

\* the callback got samples of a block that had rows before and after tr
C3_Witness ==
    /\ mcb.called
    /\ \E n \in 1..Len(mstored) :
           /\ Len(msbs[n].Timestamps) > 0
           /\ \E k \in 1..Len(mstored[n].timestamps) :
                  mstored[n].timestamps[k] < mtr.MinTimestamp
           /\ \E k \in 1..Len(mstored[n].timestamps) :
                  mstored[n].timestamps[k] > mtr.MaxTimestamp

\* C4: in every Result passed to the callback and in every sortBlock
\* produced by unpackFrom, there are as many timestamps as values.
C4_TimestampsMatchValues ==
    /\ mcb.called => Len(mcb.rs.Timestamps) = Len(mcb.rs.Values)
    /\ \A n \in 1..Len(msbs) : Len(msbs[n].Timestamps) = Len(msbs[n].Values)

\* the callback got samples merged from sortBlocks of different lengths
C4_Witness ==
    /\ mcb.called
    /\ Len(mcb.rs.Timestamps) > 2
    /\ \E a, b \in 1..Len(msbs) :
           0 < Len(msbs[a].Timestamps) /\ Len(msbs[a].Timestamps) < Len(msbs[b].Timestamps)

\* C5: after the deduplication at the end of mergeSortBlocks the
\* Timestamps of the Result are strictly increasing, also when two blocks
\* hold the same timestamp.
C5_StrictlyIncreasingAfterDedup ==
    MUnpackReturned => IsStrictlyIncreasing(mrs.Timestamps)

\* two blocks held the same timestamp, and deduplication removed a sample
C5_Witness ==
    /\ mpc = "done"
    /\ \E a, b \in 1..Len(msbs) :
           a # b /\ Range(msbs[a].Timestamps) \cap Range(msbs[b].Timestamps) # {}
    /\ Len(mrs.Timestamps) < Len(mpre.Timestamps)
    /\ Len(mrs.Timestamps) > 1

(***************************************************************************)
(* Properties of RunParallel and the series workers (Spec).                *)
(***************************************************************************)
\* the series of the query are numbered 1..NumSeries by their metric names
NumSeries ==
    IF caller.pc \in {"ready", "feed", "cancelled"}
    THEN Len(rss.packedTimeseries)
    ELSE Len(tsws)

\* the invocations of the callback for series s
CallsOf(s) == {c \in 1..Len(calls) : calls[c].rs.MetricName = s}

\* the receptions of a unit of series s by a worker
TakenOf(s) ==
    UNION {{<<k, n>> : n \in 1..Len(tsws[k].takenBy)} :
           k \in {u \in 1..Len(tsws) : tsws[u].orig.metricName.id = s}}

\* the unit k was completed with the nil error
CompletedNil(k) == tsws[k].sent # <<>> /\ tsws[k].sent[1] = NilErr

\* the unit k was completed with an error
CompletedErr(k) == tsws[k].sent # <<>> /\ tsws[k].sent[1] # NilErr

\* the callback was invoked for the unit k
Called(k) == \E c \in 1..Len(calls) : calls[c].tsw = k

\* what unpacking the series of unit k gives, from the series as enqueued
Unpacked(k) == Unpack(tsws[k].orig, EmptyResult, rss.tr, rss.fetchData)

\* every stored timestamp of the series of unit k lies outside rss.tr
AllOutside(k) ==
    \A n \in 1..Len(tsws[k].orig.brs) :
        \A t \in Range(tsws[k].orig.brs[n].timestamps) :
            t < rss.tr.MinTimestamp \/ t > rss.tr.MaxTimestamp

\* C6 as stated: when RunParallel has returned, the callback has been
\* invoked exactly once for every series.
C6_AsStated ==
    caller.pc = "returned" =>
        \A s \in 1..NumSeries : Cardinality(CallsOf(s)) = 1

\* C6 as amended: RunParallel invokes the callback at most once per
\* series, in unspecified order; when it has returned, the callback has
\* been invoked exactly once for every series whose unit completed without
\* error and whose merged Timestamps are non-empty or fetchData is false,
\* and not at all for any other series.
C6_CallbackPerSeries ==
    /\ \A s \in 1..NumSeries : Cardinality(CallsOf(s)) <= 1
    /\ caller.pc = "returned" =>
           \A s \in 1..NumSeries :
               Cardinality(CallsOf(s)) =
                   IF /\ CompletedNil(s)
                      /\ (tsws[s].rowsProcessed > 0 \/ ~rss.fetchData)
                   THEN 1
                   ELSE 0

\* RunParallel has returned after the callback ran for both series, for
\* the second one first
C6_Witness ==
    /\ caller.pc = "returned"
    /\ Len(calls) = 2
    /\ calls[1].rs.MetricName = 2
    /\ calls[2].rs.MetricName = 1

\* C7: each series is handed to exactly one series worker and appears in
\* at most one callback invocation, so two invocations for the same series
\* never exist and never overlap, under any interleaving of the workers.
C7_OneWorkerPerSeries ==
    /\ \A s \in 1..NumSeries :
           /\ Cardinality(TakenOf(s)) <= 1
           /\ Cardinality(CallsOf(s)) <= 1
           /\ caller.pc = "returned" => Cardinality(TakenOf(s)) = 1
    /\ \A v, w \in WorkerIDs :
           (/\ v # w
            /\ worker[v].pc = "callback"
            /\ worker[w].pc = "callback") =>
               worker[v].rs.MetricName # worker[w].rs.MetricName

\* the two workers run the callback at the same time, each for the series
\* it received
C7_Witness ==
    /\ \A w \in WorkerIDs : worker[w].pc = "callback"
    /\ \A s \in 1..NumSeries : Cardinality(TakenOf(s)) = 1
    /\ Len(calls) = gomaxprocs

\* C8: for a series whose deadline is not exceeded at dequeue and whose
\* unpack succeeds, the worker invokes the callback if and only if the
\* merged Timestamps are non-empty or fetchData is false, whatever errors
\* other series report; a series whose blocks all lie outside tr gets no
\* callback when fetchData is true and a callback with an empty Result
\* when fetchData is false.
C8_CallbackIffDue ==
    \A k \in 1..Len(tsws) :
        /\ Called(k) =>
               /\ Unpacked(k).err = Nil
               /\ (Len(Unpacked(k).dst.Timestamps) > 0 \/ ~rss.fetchData)
        /\ (CompletedNil(k) /\
            (Len(Unpacked(k).dst.Timestamps) > 0 \/ ~rss.fetchData)) => Called(k)
        /\ (CompletedNil(k) /\ AllOutside(k)) =>
               IF rss.fetchData
               THEN ~Called(k)
               ELSE \E c \in 1..Len(calls) :
                        /\ calls[c].tsw = k
                        /\ calls[c].rs.Timestamps = <<>>
                        /\ calls[c].rs.Values = <<>>

\* fetchData is false: a series with all blocks outside tr got its
\* callback with an empty Result although the other series failed
C8_Witness ==
    /\ ~rss.fetchData
    /\ \E k, n \in 1..Len(tsws) :
           /\ AllOutside(k)
           /\ CompletedNil(k)
           /\ Called(k)
           /\ CompletedErr(n)

\* the units that completed with an error
Failing == {k \in 1..Len(tsws) : CompletedErr(k)}

\* C9: RunParallel returns nil if and only if no series unit reported an
\* error (so it returns nil and never invokes the callback for zero
\* series); otherwise it returns the error of the lowest-indexed failing
\* series, whatever the order in which the workers finished.
C9_FirstErrorInSeriesOrder ==
    caller.pc = "returned" =>
        /\ \A k \in 1..Len(tsws) : Len(tsws[k].sent) = 1
        /\ (caller.ret = NilErr) <=> (Failing = {})
        /\ Failing # {} =>
               \E k \in Failing :
                   /\ \A n \in Failing : k <= n
                   /\ caller.ret = tsws[k].sent[1]
                   /\ caller.ret.tsw = k
        /\ Len(tsws) = 0 => (caller.ret = NilErr /\ calls = <<>>)

\* two series failed, the second one before the first, and RunParallel
\* returned the error of the first
C9_Witness ==
    /\ caller.pc = "returned"
    /\ Len(tsws) >= 2
    /\ CompletedErr(1)
    /\ CompletedErr(2)
    /\ tsws[2].sentAt < tsws[1].sentAt
    /\ caller.ret.tsw = 1

\* C10: on every path by which RunParallel returns, the StorageSearch of
\* the Results has been closed and put back into its pool exactly once
\* and rss.sr is nil.
C10_SearchReleasedOnReturn ==
    /\ ss.closes <= 1
    /\ ss.pooled <= 1
    /\ caller.pc = "returned" =>
           /\ ss.closes = 1
           /\ ss.pooled = 1
           /\ rss.sr = Nil

\* RunParallel has returned a timeout error after another series was
\* delivered, and the search is released
C10_Witness ==
    /\ caller.pc = "returned"
    /\ caller.ret.msg = "timeout exceeded during query execution"
    /\ Len(calls) > 0
    /\ ss.closes = 1
    /\ rss.sr = Nil

\* the deadline was exceeded when the unit k was received by a worker
Late(k) == tsws[k].late = <<TRUE>>

\* C14: if the deadline of the query is exceeded when a series worker
\* dequeues a unit, the worker decodes no block of that series, does not
\* invoke the callback for it and sends a timeout error on the unit's
\* completion channel, so that RunParallel returns a non-nil error; and
\* the same holds for every unit of the query dequeued later.
C14_TimeoutAtDequeue ==
    \A k \in 1..Len(tsws) :
        Late(k) =>
            /\ tsws[k].sent = <<TimeoutErr(k)>>
            /\ tsws[k].pts.brs = tsws[k].orig.brs
            /\ ~Called(k)
            /\ \A w \in WorkerIDs : worker[w].pc # "idle" => worker[w].tsw # k
            /\ caller.pc = "returned" => caller.ret # NilErr
            /\ \A n \in 1..Len(tsws) :
                   (tsws[n].takenBy # <<>> /\ tsws[n].takenAt > tsws[k].takenAt) =>
                       (Late(n) /\ tsws[n].sent = <<TimeoutErr(n)>>)

\* RunParallel has returned the timeout error of the second series, which
\* was dequeued after the deadline, while the first series was dequeued
\* before it and had its callback
C14_Witness ==
    /\ caller.pc = "returned"
    /\ Len(tsws) = 2
    /\ ~Late(1)
    /\ Called(1)
    /\ Late(2)
    /\ caller.ret = TimeoutErr(2)

(***************************************************************************)
(* Properties of several Results on the shared pools (SpecPool).           *)
(***************************************************************************)
\* the series workers that hold a unit of query q
WorkersOn(q) ==
    {w \in WorkerIDs : workers[w].pc # "idle" /\ works[workers[w].tsw].rss = q}

\* the unpackWorks of query q that are queued on unpackWorkCh
UnpackQueued(q) ==
    {n \in 1..Len(unpackWorkCh) :
        works[workers[unpackWorkCh[n].w].tsw].rss = q}

\* the unpack workers that decode an unpackWork of query q
UnpackersOn(q) ==
    {u \in WorkerIDs : /\ unpackers[u].pc = "unpack"
                       /\ works[workers[unpackers[u].w].tsw].rss = q}

\* the invocations of the callback of query q that are running
RunningOf(q) ==
    {c \in 1..Len(invocations) : invocations[c].rss = q /\ invocations[c].running}

\* C11: RunParallel returns, and releases the StorageSearch, only after
\* the completion of every series unit it enqueued has been received: once
\* the StorageSearch of a query is closed, every unit of the query has
\* sent its completion and had it received, no unit of the query is
\* queued or held by a series worker, no callback of the query is running,
\* no unpackWork of the query is queued or being decoded, and no block of
\* the query has been read after the close.
C11_ReleasedAfterAllCompletions ==
    \A q \in Queries :
        searches[q].closes > 0 =>
            /\ \A n \in 1..Len(callers[q].tsws) :
                   /\ Len(works[callers[q].tsws[n]].sent) = 1
                   /\ works[callers[q].tsws[n]].doneCh = <<>>
            /\ \A n \in 1..Len(workCh) : works[workCh[n]].rss # q
            /\ WorkersOn(q) = {}
            /\ RunningOf(q) = {}
            /\ UnpackQueued(q) = {}
            /\ UnpackersOn(q) = {}
            /\ searches[q].readsReleased = 0

\* RunParallel of one query has returned and its StorageSearch is closed
\* after blocks were read and its callback ran, while the callback of the
\* other query is still running
C11_Witness ==
    \E q, o \in Queries :
        /\ q # o
        /\ callers[q].pc = "returned"
        /\ searches[q].closes = 1
        /\ searches[q].reads > 0
        /\ \E c \in 1..Len(invocations) : invocations[c].rss = q
        /\ RunningOf(o) # {}

\* C13: every workerID passed to a callback is in [0, gomaxprocs), and at
\* any moment at most one callback invocation is running with a given
\* workerID, also when RunParallel calls of different queries run at the
\* same time on the shared pool of series workers.
C13_WorkerIDOnePerCallback ==
    /\ \A c \in 1..Len(invocations) :
           0 <= invocations[c].workerID /\ invocations[c].workerID < gomaxprocs
    /\ \A c, d \in 1..Len(invocations) :
           (c # d /\ invocations[c].running /\ invocations[d].running) =>
               invocations[c].workerID # invocations[d].workerID

\* the callbacks of the two queries are running at the same time, with
\* the workerIDs 0 and gomaxprocs - 1
C13_Witness ==
    \E c, d \in 1..Len(invocations) :
        /\ invocations[c].rss # invocations[d].rss
        /\ invocations[c].running
        /\ invocations[d].running
        /\ invocations[c].workerID = 0
        /\ invocations[d].workerID = gomaxprocs - 1

(***************************************************************************)
(* Properties of a Results after its terminal call (SpecHandle).           *)
(***************************************************************************)
\* C12: a Results is unusable after a terminal call: once RunParallel has
\* returned or Cancel has been called, no later call on it (Len, Cancel,
\* RunParallel, in any order) dispatches series work, reads a block
\* through the released StorageSearch, or closes or pools a StorageSearch
\* a second time.
C12_AsStated ==
    \A q \in Queries :
        /\ \A k \in 1..Len(works) : works[k].rss = q => ~works[k].afterTerminal
        /\ searches[q].readsReleased = 0
        /\ searches[q].closes <= 1
        /\ searches[q].pooled <= 1

(***************************************************************************)
(* Properties of ProcessSearchQuery (SpecQuery).                           *)
(***************************************************************************)
\* ProcessSearchQuery returned a Results
ReturnedResults == psq.pc = "done" /\ psq.ret.rss # <<>>

\* ProcessSearchQuery passed the deadline, filter and time range checks
PassedChecks ==
    /\ psq.exceededAtEntry = <<FALSE>>
    /\ psq.pc # "setup"
    /\ psq.sq.TagFilterssOK
    /\ psq.sq.TimeRangeOK

\* C15: if the deadline is already exceeded when ProcessSearchQuery is
\* entered, it returns a timeout error and no Results, without parsing
\* filters, without touching the in-flight counter, without obtaining a
\* StorageSearch from the pool and without any storage access.
C15_TimeoutAtEntry ==
    psq.exceededAtEntry = <<TRUE>> =>
        /\ psq.pc = "done"
        /\ psq.ret.err.msg = "timeout exceeded before starting the query processing"
        /\ psq.ret.rss = <<>>
        /\ psq.tfssCalls = 0
        /\ vmstorage.adds = 0
        /\ vmstorage.dones = 0
        /\ vmstorage.WG = vmstorage.before
        /\ ssPool.gets = 0
        /\ vmstorage.accesses = 0

\* a query with valid filters and time range over a non-empty stream was
\* entered after its deadline and has returned
C15_Witness ==
    /\ psq.exceededAtEntry = <<TRUE>>
    /\ psq.pc = "done"
    /\ psq.sq.TagFilterssOK
    /\ psq.sq.TimeRangeOK
    /\ Len(vmstorage.stream) = MaxStream

\* the positions of the stream that hold the metric name
PositionsOf(stream, name) == {k \in 1..Len(stream) : stream[k] = name}

\* the first position of the stream that holds the metric name
FirstPosition(stream, name) ==
    CHOOSE k \in PositionsOf(stream, name) :
        \A n \in PositionsOf(stream, name) : k <= n

\* C16: for any stream of (metric name, block ref) pairs yielded by the
\* search, also with the blocks of different names interleaved, a
\* successful ProcessSearchQuery returns exactly one packedTimeseries per
\* distinct metric name, ordered by first occurrence in the stream, whose
\* block list is the stream's blocks for that name in stream order; Len()
\* is the number of distinct names.
C16_GroupedByNameInStreamOrder ==
    ReturnedResults =>
        LET pts == psq.ret.rss[1].packedTimeseries
            stream == vmstorage.stream
        IN  /\ Len(pts) = Cardinality(Range(stream))
            /\ {pts[i].metricName : i \in 1..Len(pts)} = Range(stream)
            /\ \A i, j \in 1..Len(pts) :
                   i < j => FirstPosition(stream, pts[i].metricName)
                              < FirstPosition(stream, pts[j].metricName)
            /\ \A i \in 1..Len(pts) :
                   /\ IsStrictlyIncreasing(pts[i].brs)
                   /\ Range(pts[i].brs) = PositionsOf(stream, pts[i].metricName)

\* a Results was returned for a stream in which a block of another name
\* lies between two blocks of the first name
C16_Witness ==
    /\ ReturnedResults
    /\ Len(psq.ret.rss[1].packedTimeseries) = 2
    /\ psq.ret.rss[1].packedTimeseries[1].brs = <<1, 3>>
    /\ psq.ret.rss[1].packedTimeseries[2].brs = <<2>>

\* C17: the in-flight query counter vmstorage.WG is incremented once,
\* after the filter and time range checks have passed, and decremented on
\* every exit path of ProcessSearchQuery (success, timeout during the
\* drain, search error): its value after the call returns is its value
\* before the call.
C17_InFlightCounterBalanced ==
    /\ vmstorage.adds = (IF PassedChecks THEN 1 ELSE 0)
    /\ psq.pc \in {"drain", "finish"} =>
           (vmstorage.dones = 0 /\ vmstorage.WG = vmstorage.before + 1)
    /\ psq.pc = "done" =>
           /\ vmstorage.dones = vmstorage.adds
           /\ vmstorage.WG = vmstorage.before

\* with another query in flight, a query that had passed the checks has
\* returned a timeout from the drain after a first block
C17_Witness ==
    /\ psq.pc = "done"
    /\ vmstorage.before = 1
    /\ vmstorage.adds = 1
    /\ psq.blocksRead = 2
    /\ psq.ret.err.msg = "timeout exceeded while fetching data block from storage"

\* the deadline was found exceeded at the check that follows a block
TimedOutAtBlock ==
    \E k \in 1..Len(psq.exceededAtBlock) : psq.exceededAtBlock[k]

\* C18: while draining the search, ProcessSearchQuery checks the deadline
\* after every block yielded; if the deadline is exceeded at such a check,
\* or the search ends with the storage-level deadline error, it returns a
\* timeout error and no Results; any other search error is returned as a
\* search error; a Results is returned only when neither occurred.
C18_DrainTimeoutsAndErrors ==
    /\ Len(psq.exceededAtBlock) = vmstorage.next
    /\ psq.blocksRead = vmstorage.next
    /\ \A k \in 1..(Len(psq.exceededAtBlock) - 1) : ~psq.exceededAtBlock[k]
    /\ TimedOutAtBlock => psq.pc = "done"
    /\ (psq.pc = "done" /\ PassedChecks) =>
           /\ TimedOutAtBlock =>
                  /\ psq.ret.err.msg = "timeout exceeded while fetching data block from storage"
                  /\ psq.ret.rss = <<>>
           /\ (~TimedOutAtBlock /\ vmstorage.err = "ErrDeadlineExceeded") =>
                  /\ psq.ret.err.msg = "timeout exceeded during the query"
                  /\ psq.ret.rss = <<>>
           /\ (~TimedOutAtBlock /\ vmstorage.err = "other") =>
                  /\ psq.ret.err.msg = "search error after reading data blocks"
                  /\ psq.ret.err.cause = "other"
                  /\ psq.ret.rss = <<>>
           /\ (psq.ret.rss # <<>>) <=> (~TimedOutAtBlock /\ vmstorage.err = Nil)
           /\ psq.ret.rss # <<>> => psq.ret.err = NoErr

\* the deadline passed between the first and the second block of the
\* stream and the query has returned the timeout of the drain
C18_Witness ==
    /\ psq.pc = "done"
    /\ psq.exceededAtBlock = <<FALSE, TRUE>>
    /\ Len(vmstorage.stream) = MaxStream
    /\ psq.ret.rss = <<>>

(***************************************************************************)
(* Properties of the order of the blocks and of the batches (SpecOrder).   *)
(***************************************************************************)
\* the merge of the blocks in the order they are stored in, all of them
\* decoded one after the other and handed to one mergeSortBlocks
StoredOrderMerge ==
    mergeSortBlocks(
        [EmptyResult EXCEPT !.MetricName = reordered.pts.metricName.id],
        [n \in 1..Len(reordered.stored) |->
            unpackFrom(getSortBlock, reordered.stored[n], reordered.tr, TRUE).sb])

\* the timestamp t occurs in one stored block only
InOneBlock(t) ==
    Cardinality({n \in 1..Len(reordered.stored) :
                    t \in Range(reordered.stored[n].timestamps)}) = 1

\* C19: the merged timestamp sequence of a series is the same for every
\* order in which its blocks reach the merge and for every split of its
\* blocks into unpack batches (unpackBatchSize, unpackBatchSize + 1 and
\* 2 * unpackBatchSize blocks all succeed); the outputs differ at most in
\* the value that stands for a timestamp held by more than one block.
C19_OrderAndBatchIndependent ==
    reordered.pc = "unpacked" =>
        /\ reordered.err = Nil
        /\ reordered.rs.Timestamps = StoredOrderMerge.Timestamps
        /\ Len(reordered.rs.Values) = Len(reordered.rs.Timestamps)
        /\ \A k \in 1..Len(reordered.rs.Timestamps) :
               InOneBlock(reordered.rs.Timestamps[k]) =>
                   reordered.rs.Values[k] = StoredOrderMerge.Values[k]

\* a series of unpackBatchSize + 1 blocks was unpacked in reverse order,
\* and a timestamp held by several blocks came out with another value
C19_Witness ==
    /\ reordered.pc = "unpacked"
    /\ Len(reordered.stored) = unpackBatchSize + 1
    /\ reordered.order[1] = unpackBatchSize + 1
    /\ Len(reordered.rs.Timestamps) > 1
    /\ reordered.rs.Values # StoredOrderMerge.Values

EntryCount(entries, e) == Cardinality({i \in 1..Len(entries) : entries[i] = e})

\* the number of stored entries that are e once "" is replaced
StoredAs(e) ==
    Cardinality({i \in 1..Len(labelq.stored) :
                    /\ labelq.stored[i].Values = e.Values
                    /\ \/ labelq.stored[i].Key = e.Key
                       \/ labelq.stored[i].Key = "" /\ e.Key = "__name__"})

\* C22: GetLabelEntries returns the entries of the storage with every
\* empty key replaced by "__name__", ordered by number of values
\* descending and, among equal numbers of values, by key descending; when
\* the deadline is exceeded at entry it returns a timeout error and the
\* storage is not queried.
C22_LabelEntriesSubstitutedAndSorted ==
    labelq # <<>> /\ labelq.pc = "done" =>
        /\ labelq.exceededAtEntry =>
               /\ labelq.ret.err = "timeout exceeded before starting the query processing"
               /\ labelq.ret.entries = <<>>
               /\ labelq.searches = 0
        /\ (~labelq.exceededAtEntry /\ labelq.storageErr = Nil) =>
               LET got == labelq.ret.entries
               IN  /\ labelq.ret.err = Nil
                   /\ labelq.searches = 1
                   /\ Len(got) = Len(labelq.stored)
                   /\ \A i \in 1..Len(got) : got[i].Key # ""
                   /\ \A e \in TagEntries : EntryCount(got, e) =
                          (IF e.Key = "" THEN 0 ELSE StoredAs(e))
                   /\ \A i \in 1..(Len(got) - 1) :
                          \/ Len(got[i].Values) > Len(got[i + 1].Values)
                          \/ /\ Len(got[i].Values) = Len(got[i + 1].Values)
                             /\ KeyRank(got[i].Key) >= KeyRank(got[i + 1].Key)

\* the storage held an entry with the empty key and two more entries with
\* as many values, one with a key above "__name__" and one with a key below
C22_Witness ==
    /\ labelq # <<>>
    /\ labelq.pc = "done"
    /\ labelq.ret.err = Nil
    /\ Len(labelq.stored) = MaxEntries
    /\ labelq.stored[1].Key = "A"
    /\ labelq.stored[2].Key = ""
    /\ labelq.stored[3].Key = "a"
    /\ \A i \in 1..MaxEntries : Len(labelq.stored[i].Values) = 1
    /\ labelq.ret.entries[2].Key = "__name__"

(***************************************************************************)
(* Properties of Unpack, the unpack workers and the pools (SpecUnpack).    *)
(***************************************************************************)
\* the unpackWorks and the sortBlocks allocated so far
UnitIDs == DOMAIN unpacking.upws

SortBlockIDs == DOMAIN unpacking.sbs

\* the units that are out of the pool
UnitsOut == UnitIDs \ unpacking.unpackWorkPool

\* the calls of Unpack that have passed the feeding loop: those that have
\* returned, and the one under way
FedCalls(c) ==
    IF unpacking.callers[c].pc \in {"await", "filter", "merge", "returned"}
    THEN Append(unpacking.callers[c].rets, UnpackResult(unpacking.callers[c]))
    ELSE unpacking.callers[c].rets

\* the calls of Unpack that have reached their return
EndedCalls(c) ==
    IF unpacking.callers[c].pc = "returned"
    THEN Append(unpacking.callers[c].rets, UnpackResult(unpacking.callers[c]))
    ELSE unpacking.callers[c].rets

\* C21: every unpackWork in the pool has an empty doneCh and empty ws and
\* sbs; a unit is put back only after the one value sent on its doneCh was
\* received, when no unpack worker holds it and it is not on unpackWorkCh;
\* the BUG panic of reset is never reached.
C21_PooledUnpackWorkIsEmpty ==
    unpacking # <<>> =>
        /\ ~unpacking.panic
        /\ \A id \in unpacking.unpackWorkPool :
               /\ unpacking.upws[id].doneCh = <<>>
               /\ unpacking.upws[id].ws = <<>>
               /\ unpacking.upws[id].sbs = <<>>
               /\ unpacking.upws[id].sends = 1
               /\ id \notin Range(unpacking.unpackWorkCh)
               /\ \A u \in WorkerIDs : unpacking.unpackers[u].upw # id
        /\ \A u \in WorkerIDs :
               unpacking.unpackers[u].pc # "idle" =>
                   unpacking.unpackers[u].upw \in UnitsOut

\* two units are in the pool, one of them for the second time
C21_Witness ==
    /\ unpacking # <<>>
    /\ Cardinality(unpacking.unpackWorkPool) = 2
    /\ \E id \in unpacking.unpackWorkPool : unpacking.upws[id].gen = 2

\* the first item of the unit that cannot be unmarshaled, 0 if there is none
FirstBadItem(upw) ==
    LET bad == {i \in 1..Len(upw.ws) : upw.fetchData /\ upw.ws[i].br.corrupt}
    IN  IF bad = {} THEN 0 ELSE CHOOSE i \in bad : \A j \in bad : i <= j

\* C23: the unpack worker sends one value on the doneCh of every unit it
\* received: the error of the first item that fails, when the items after
\* it were not unpacked and the failing sortBlock was put back, or nil when
\* every item was unpacked into upw.sbs in item order; the doneCh is empty
\* whenever the worker is about to send, so it never waits.
C23_OneCompletionPerUnit ==
    unpacking # <<>> =>
        /\ \A u \in WorkerIDs :
               unpacking.unpackers[u].pc = "send" =>
                   /\ unpacking.upws[unpacking.unpackers[u].upw].doneCh = <<>>
                   /\ unpacking.upws[unpacking.unpackers[u].upw].sends = 0
        /\ \A id \in UnitIDs :
               LET upw == unpacking.upws[id]
               IN  /\ upw.sends <= 1
                   /\ Len(upw.doneCh) <= upw.sends
                   /\ Len(upw.doneCh) = 1 =>
                          LET err == upw.doneCh[1]
                              bad == FirstBadItem(upw)
                          IN  /\ (err = <<>>) <=> (bad = 0)
                              /\ err # <<>> =>
                                     /\ err[1].item = bad
                                     /\ err[1].upw = id
                                     /\ upw.decoded = bad
                                     /\ Len(upw.sbs) = bad - 1
                                     /\ upw.failed = 1
                              /\ err = <<>> =>
                                     /\ upw.decoded = Len(upw.ws)
                                     /\ Len(upw.sbs) = Len(upw.ws)
                                     /\ upw.failed = 0
                              /\ \A j \in 1..Len(upw.sbs) :
                                     unpacking.sbs[upw.sbs[j]].Timestamps =
                                         unpackFrom(getSortBlock, upw.ws[j].br,
                                                    upw.ws[j].tr,
                                                    upw.fetchData).sb.Timestamps

\* the error of the second item of a full unit waits on its doneCh
C23_Witness ==
    /\ unpacking # <<>>
    /\ \E id \in UnitIDs :
           /\ Len(unpacking.upws[id].ws) = unpackBatchSize
           /\ Len(unpacking.upws[id].doneCh) = 1
           /\ unpacking.upws[id].doneCh[1] # <<>>
           /\ unpacking.upws[id].doneCh[1][1].item = 2

\* the first error among the values the units sent, in the order of the
\* units
RECURSIVE FirstError(_, _)
FirstError(errs, k) ==
    IF k > Len(errs)
    THEN <<>>
    ELSE IF errs[k] # <<>> THEN errs[k] ELSE FirstError(errs, k + 1)

\* C24: Unpack receives the completion of every unit it enqueued, in the
\* order it enqueued them, also after a unit has reported an error, and
\* puts each of them back once; it returns the error of the first failing
\* unit in that order, and then does not call mergeSortBlocks.
C24_AwaitsEveryUnit ==
    unpacking # <<>> =>
        \A c \in Callers : \A n \in 1..Len(EndedCalls(c)) :
            LET r == EndedCalls(c)[n]
            IN
            /\ r.awaited = r.upws
            /\ r.putBack = r.upws
            /\ \A i, j \in 1..Len(r.upws) : i # j => r.upws[i] # r.upws[j]
            /\ Len(r.errs) = Len(r.upws)
            /\ \A k \in 1..Len(r.errs) :
                   r.errs[k] # <<>> => r.errs[k][1].upw = r.upws[k]
            /\ r.err = FirstError(r.errs, 1)
            /\ r.err # <<>> => ~r.merged
            /\ r.err = <<>> => r.merged

\* both units of a series have failed, and Unpack has returned the error
\* of the first
C24_Witness ==
    /\ unpacking # <<>>
    /\ \E c \in Callers : \E n \in 1..Len(EndedCalls(c)) :
           LET r == EndedCalls(c)[n]
           IN  /\ Len(r.upws) = 2
               /\ r.errs[1] # <<>>
               /\ r.errs[2] # <<>>
               /\ r.err = r.errs[1]

\* C25 as stated: when Unpack returns an error, every sortBlock taken for
\* a unit of that series is back in the pool (or was taken out again for
\* another series), those of the units that succeeded before the first
\* failing unit included.
C25_AsStated ==
    unpacking # <<>> =>
        \A c \in Callers :
            (/\ unpacking.callers[c].pc = "returned"
             /\ unpacking.callers[c].firstErr # <<>>) =>
                \A id \in SortBlockIDs :
                    unpacking.sbs[id].owner = <<c, unpacking.callers[c].s>> =>
                        id \in unpacking.sbPool

\* the block refs of the units, one after the other
RECURSIVE FedItems(_, _)
FedItems(fed, k) ==
    IF k > Len(fed) THEN <<>> ELSE fed[k] \o FedItems(fed, k + 1)

\* C26: Unpack splits the n block refs of a series, in order, into units
\* of at most unpackBatchSize items: every block ref is in one unit, every
\* unit but the last holds unpackBatchSize items, max(1, ceil(n /
\* unpackBatchSize)) units are enqueued, one empty unit when n = 0, and
\* pts.brs is empty afterwards.
C26_PartitionIntoUnits ==
    unpacking # <<>> =>
        \A c \in Callers : \A m \in 1..Len(FedCalls(c)) :
            LET r == FedCalls(c)[m]
                n == Len(r.brs0)
                items == FedItems(r.fed, 1)
            IN  /\ Len(items) = n
                /\ \A i \in 1..n : items[i] = [br |-> r.brs0[i], tr |-> UnpackRange]
                /\ \A k \in 1..(Len(r.fed) - 1) : Len(r.fed[k]) = unpackBatchSize
                /\ Len(r.fed[Len(r.fed)]) <= unpackBatchSize
                /\ Len(r.fed) = (IF n = 0
                                 THEN 1
                                 ELSE (n + unpackBatchSize - 1) \div unpackBatchSize)
                /\ Len(r.upws) = Len(r.fed)
                /\ r.brs = <<>>

\* a series of 2 * unpackBatchSize blocks was split into two full units
C26_Witness ==
    /\ unpacking # <<>>
    /\ \E c \in Callers :
           /\ unpacking.callers[c].pc = "await"
           /\ Len(unpacking.callers[c].brs0) = 2 * unpackBatchSize
           /\ Len(unpacking.callers[c].fed) = 2
           /\ Len(unpacking.callers[c].fed[2]) = unpackBatchSize

\* the sortBlocks a unit, the collecting loop of a caller or a heap refers
\* to, as pairs of the referrer and the sortBlock
SortBlockRefs ==
    UNION {{<<"unit", id, j>> : j \in 1..Len(unpacking.upws[id].sbs)} :
              id \in UnitIDs}
    \cup
    UNION {{<<"caller", c, j>> :
               j \in 1..(IF unpacking.callers[c].pc \in {"await", "filter"}
                         THEN Len(unpacking.callers[c].sbs) ELSE 0)} :
              c \in Callers}
    \cup
    UNION {{<<"heap", c, j>> :
               j \in 1..(IF unpacking.callers[c].pc = "merge"
                         THEN Len(unpacking.callers[c].st.sbh) ELSE 0)} :
              c \in Callers}

\* the sortBlock a reference refers to
Referent(ref) ==
    IF ref[1] = "unit"
    THEN unpacking.upws[ref[2]].sbs[ref[3]]
    ELSE IF ref[1] = "caller"
         THEN unpacking.callers[ref[2]].sbs[ref[3]]
         ELSE unpacking.callers[ref[2]].st.sbh[ref[3]].id

\* C30: a sortBlock in the pool is referred to by no unit, no collecting
\* loop and no heap, none is put twice, and every sortBlock handed to
\* mergeSortBlocks is put back once (as empty, or when drained); a pooled
\* sortBlock has NextIdx = 0 and no Timestamps and Values, and a sortBlock
\* of a unit holds the rows of the block it was unpacked from and no other.
C30_SortBlockPoolSafe ==
    unpacking # <<>> =>
        /\ ~unpacking.doublePut
        /\ \A id \in unpacking.sbPool :
               /\ unpacking.sbs[id].NextIdx = 0
               /\ unpacking.sbs[id].Timestamps = <<>>
               /\ unpacking.sbs[id].Values = <<>>
        /\ \A ref \in SortBlockRefs : Referent(ref) \notin unpacking.sbPool
        /\ \A r1, r2 \in SortBlockRefs : r1 # r2 => Referent(r1) # Referent(r2)
        /\ \A c \in Callers :
               /\ unpacking.callers[c].pc = "merge" =>
                      \A j \in 1..Len(unpacking.callers[c].st.sbh) :
                          LET e == unpacking.callers[c].st.sbh[j]
                          IN  /\ e.Timestamps = unpacking.sbs[e.id].Timestamps
                              /\ e.Values = unpacking.sbs[e.id].Values
                              /\ e.NextIdx = unpacking.sbs[e.id].NextIdx
               /\ \A n \in 1..Len(EndedCalls(c)) :
                      EndedCalls(c)[n].merged =>
                          EndedCalls(c)[n].put = EndedCalls(c)[n].handed
        /\ \A id \in UnitIDs :
               LET upw == unpacking.upws[id]
               IN  \A j \in 1..Len(upw.sbs) :
                       LET sb == unpackFrom(getSortBlock, upw.ws[j].br,
                                            upw.ws[j].tr, upw.fetchData).sb
                       IN  /\ unpacking.sbs[upw.sbs[j]].Timestamps = sb.Timestamps
                           /\ unpacking.sbs[upw.sbs[j]].Values = sb.Values
                           /\ unpacking.sbs[upw.sbs[j]].NextIdx = 0

\* a merge has put sortBlocks back and still holds others in its heap
\* while a unit of the other caller holds a sortBlock that was allocated
\* for another unit
C30_Witness ==
    /\ unpacking # <<>>
    /\ \E c \in Callers :
           /\ unpacking.callers[c].pc = "merge"
           /\ unpacking.callers[c].st.put > 0
           /\ Len(unpacking.callers[c].st.sbh) > 1
    /\ \E id \in UnitIDs :
           \E j \in 1..Len(unpacking.upws[id].sbs) :
               unpacking.upws[id].sbs[j][1] # id

(***************************************************************************)
(* Properties of the heap and the loop of mergeSortBlocks (SpecHeap).      *)
(***************************************************************************)
\* the sortBlock with position id of src as the heap holds it, <<>> if the
\* heap does not hold it
HeapHolds(id) ==
    LET at == {n \in 1..Len(merging.st.sbh) : merging.st.sbh[n].id = id}
    IN  IF at = {} THEN <<>> ELSE <<merging.st.sbh[CHOOSE n \in at : TRUE]>>

\* the samples of src[id] that were appended to dst
RECURSIVE DeliveredUpTo(_)
DeliveredUpTo(id) ==
    IF id = 0
    THEN 0
    ELSE DeliveredUpTo(id - 1) +
         (IF HeapHolds(id) = <<>>
          THEN Len(merging.src[id].Timestamps)
          ELSE HeapHolds(id)[1].NextIdx)

\* C27: whenever a heap operation begins or has ended, every sortBlock of
\* the heap has NextIdx < len(Timestamps), and the heap holds each
\* sortBlock of src that has samples not yet appended to dst once, and no
\* other: the samples before NextIdx of those in the heap and all samples
\* of the others are in dst.  No index is out of range.
C27_HeapHoldsUndelivered ==
    (merging # <<>> /\ merging.pc \in {"init", "loop", "panicked"}) =>
        /\ merging.pc # "panicked"
        /\ \A n \in 1..Len(merging.st.sbh) :
               /\ merging.st.sbh[n].NextIdx >= 0
               /\ merging.st.sbh[n].NextIdx < Len(merging.st.sbh[n].Timestamps)
               /\ merging.st.sbh[n].Timestamps =
                      merging.src[merging.st.sbh[n].id].Timestamps
        /\ \A n1, n2 \in 1..Len(merging.st.sbh) :
               n1 # n2 => merging.st.sbh[n1].id # merging.st.sbh[n2].id
        /\ Len(merging.st.dst.Timestamps) = DeliveredUpTo(Len(merging.src))
        /\ merging.pc = "loop" => IsHeap(merging.st.sbh)

\* an empty sortBlock was skipped, and the heap holds two sortBlocks, one
\* of them pushed back with a part of its samples delivered
C27_Witness ==
    /\ merging # <<>>
    /\ merging.pc = "loop"
    /\ \E id \in 1..Len(merging.src) : Len(merging.src[id].Timestamps) = 0
    /\ Len(merging.st.sbh) = 2
    /\ \E n \in 1..Len(merging.st.sbh) : merging.st.sbh[n].NextIdx > 0

\* what C28 says of the turns of the loop: none reads past the end of a
\* block, each appends at least one sample of the sortBlock it popped,
\* leaving it with idxNext > top.NextIdx, and the loop ends with the heap
\* empty and every sample appended
HeapProgress ==
    merging # <<>> =>
        /\ merging.pc # "panicked"
        /\ merging.last # <<>> =>
               /\ merging.last.emitted >= 1
               /\ merging.last.idxNext > merging.last.top.NextIdx
               /\ merging.last.idxNext <= Len(merging.last.top.Timestamps)
               /\ merging.last.emitted =
                      merging.last.idxNext - merging.last.top.NextIdx
        /\ merging.pc = "dedup" =>
               /\ merging.st.sbh = <<>>
               /\ Len(merging.st.dst.Timestamps) = SumLen(merging.src)
               /\ merging.iters <= SumLen(merging.src)

\* C28: mergeSortBlocks terminates for every list of non-decreasing
\* blocks: every turn of its loop appends at least one sample of the
\* sortBlock it popped, the scan for idxNext stays inside the block, and
\* the loop ends when the last sortBlock is drained.
C28_MergeTerminates ==
    /\ []HeapProgress
    /\ <>(merging # <<>> /\ merging.pc = "done")

\* a merge of two sortBlocks has returned after three turns, the last of
\* which drained the last sortBlock
C28_Witness ==
    /\ merging # <<>>
    /\ merging.pc = "done"
    /\ Len(merging.src) = 2
    /\ merging.iters = 3
    /\ ~merging.last.pushed

(***************************************************************************)
(* Properties of tsw.rowsProcessed (SpecRows).                             *)
(***************************************************************************)
\* len(rs.Values) of the series of unit k after a successful Unpack
RowsOf(k) ==
    Len(Unpack(tally.tsws[k].orig, EmptyResult, QueryRange,
               tally.fetchData).dst.Values)

\* the rows of the units up to k that sent nil
RECURSIVE RowsOfSuccessful(_)
RowsOfSuccessful(k) ==
    IF k = 0
    THEN 0
    ELSE RowsOfSuccessful(k - 1) +
         (IF tally.tsws[k].sent = <<NilErr>> THEN RowsOf(k) ELSE 0)

\* C29: the write of tsw.rowsProcessed by the worker and its read by
\* RunParallel are never both about to happen: the read follows the
\* receive of the unit's completion and the only write precedes the send;
\* the value given to perQueryRowsProcessed is the sum of len(rs.Values)
\* over the series whose unit sent nil, the others counting 0.
C29_RowsProcessedNoRace ==
    tally # <<>> =>
        /\ \A k \in 1..Len(tally.tsws) :
               LET writing == \E w \in WorkerIDs :
                                  /\ tally.workers[w].pc = "write"
                                  /\ tally.workers[w].tsw = k
                   reading == /\ tally.caller.pc = "read"
                              /\ tally.caller.i = k
               IN  /\ ~(writing /\ reading)
                   /\ tally.tsws[k].sent # <<>> => ~writing
                   /\ reading => (tally.tsws[k].sent # <<>> /\
                                  tally.tsws[k].doneCh = <<>>)
                   /\ tally.tsws[k].reads > 0 => tally.tsws[k].sent # <<>>
                   /\ tally.tsws[k].writes <= 1
                   /\ Len(tally.tsws[k].sent) <= 1
                   /\ tally.tsws[k].sent = <<NilErr>> =>
                          (tally.tsws[k].writes = 1 /\
                           tally.tsws[k].rowsProcessed = RowsOf(k))
                   /\ (tally.tsws[k].sent # <<>> /\ tally.tsws[k].sent # <<NilErr>>) =>
                          (tally.tsws[k].writes = 0 /\
                           tally.tsws[k].rowsProcessed = 0)
        /\ tally.caller.pc = "returned" =>
               /\ tally.hist = <<[rows |-> RowsOfSuccessful(Len(tally.tsws)),
                                   series |-> Len(tally.tsws)]>>
               /\ \A k \in 1..Len(tally.tsws) : tally.tsws[k].reads = 1

\* RunParallel has returned after a series with rows and a series that
\* failed, and has reported the rows of the first
C29_Witness ==
    /\ tally # <<>>
    /\ tally.caller.pc = "returned"
    /\ Len(tally.tsws) = 2
    /\ tally.tsws[1].sent = <<NilErr>>
    /\ tally.tsws[2].sent # <<NilErr>>
    /\ tally.hist[1].rows > 0
    /\ tally.hist[1].rows = tally.tsws[1].rowsProcessed

(***************************************************************************)
(* Properties of the Result a series worker reuses (SpecShared).           *)
(***************************************************************************)
\* what unpacking the series of unit k of the pool gives, from the series
\* as enqueued
PoolUnpacked(k) ==
    Unpack(works[k].orig, EmptyResult, handles[works[k].rss].tr,
           handles[works[k].rss].fetchData)

\* C31: the Result passed to a callback holds the metric name and the
\* samples of the series being delivered and nothing else: nothing of a
\* series the same worker processed before, of the same query or of
\* another one, whether that series was delivered or ended in an error,
\* is left in Timestamps or Values.
C31_CallbackResultOfItsSeriesOnly ==
    /\ \A c \in 1..Len(calls) :
           /\ calls[c].rs.Timestamps = Unpacked(calls[c].tsw).dst.Timestamps
           /\ calls[c].rs.Values = Unpacked(calls[c].tsw).dst.Values
           /\ calls[c].rs.MetricName = tsws[calls[c].tsw].orig.metricName.id
    /\ \A c \in 1..Len(invocations) :
           /\ invocations[c].rs.Timestamps =
                  PoolUnpacked(invocations[c].tsw).dst.Timestamps
           /\ invocations[c].rs.Values =
                  PoolUnpacked(invocations[c].tsw).dst.Values
           /\ invocations[c].rs.MetricName =
                  works[invocations[c].tsw].orig.metricName.id

\* a worker has delivered the samples of a series of one query after it
\* had delivered the samples of a series of the other query
C31_Witness ==
    \E c1, c2 \in 1..Len(invocations) :
        /\ c1 < c2
        /\ invocations[c1].goroutine = invocations[c2].goroutine
        /\ invocations[c1].rss # invocations[c2].rss
        /\ Len(invocations[c1].rs.Timestamps) > 0
        /\ Len(invocations[c2].rs.Timestamps) > 0


(***************************************************************************)
(* Properties of SpecFlow and SpecFlowFair                                 *)
(***************************************************************************)
\* the most callers an input has
FlowMaxCallers == 2

\* caller q is in RunParallel
FlowInRunParallel(q) ==
    /\ flow # <<>>
    /\ q \in DOMAIN flow.callers
    /\ flow.callers[q].pc \in {"feed", "wait"}

\* RunParallel of caller q has returned
FlowReturned(q) ==
    /\ flow # <<>>
    /\ q \in DOMAIN flow.callers
    /\ flow.callers[q].pc = "returned"

\* C32: with timeseriesWorkCh and unpackWorkCh of their capacities,
\* gomaxprocs series workers and gomaxprocs unpack workers, whatever the
\* callers, their series and their units are, every call of RunParallel
\* returns in the end, when every callback and every unmarshaling returns
C32_EveryRunParallelReturns ==
    \A q \in 1..FlowMaxCallers : FlowInRunParallel(q) ~> FlowReturned(q)

\* RunParallel has returned to two concurrent callers that both had to
\* wait with a send on the full timeseriesWorkCh
C32_Witness ==
    /\ flow # <<>>
    /\ Len(flow.callers) = 2
    /\ \A q \in DOMAIN flow.callers : flow.callers[q].pc = "returned"
    /\ flow.waited.callers = {1, 2}

\* RunParallel has returned to a caller a series worker of which had to
\* wait with a send on the full unpackWorkCh
C32_WitnessUnpack ==
    /\ flow # <<>>
    /\ \A q \in DOMAIN flow.callers : flow.callers[q].pc = "returned"
    /\ flow.waited.workers # {}

\* RunParallel has returned to two callers, to one of them after its
\* deadline had passed
C32_WitnessDeadline ==
    /\ flow # <<>>
    /\ Len(flow.callers) = 2
    /\ \A q \in DOMAIN flow.callers : flow.callers[q].pc = "returned"
    /\ \E q \in DOMAIN flow.callers : flow.deadlineExceeded[q]

(***************************************************************************)
(* The StorageSearch and the in-flight counter over the life of a query    *)
(***************************************************************************)
\* ProcessSearchQuery has returned an error after getStorageSearch()
ReturnedErrorWithSearch ==
    /\ psq.pc = "done"
    /\ psq.ret.err # NoErr
    /\ ssPool.gets = 1

\* C33: every StorageSearch obtained by ProcessSearchQuery is closed and
\* returned to its pool exactly once: by ProcessSearchQuery itself when it
\* returns an error after obtaining it (timeout while draining, search
\* error), or otherwise by the terminal RunParallel or Cancel of the
\* returned Results; no StorageSearch is left open without an owner.
\* Stated for the return of ProcessSearchQuery: after an error the search
\* is closed and pooled once, after a success it is open and in the
\* Results.
C33_AsStated ==
    /\ ssPool.closes <= 1
    /\ ssPool.puts <= 1
    /\ ReturnedErrorWithSearch =>
           /\ ~ssPool.open
           /\ ssPool.closes = 1
           /\ ssPool.puts = 1
    /\ (psq.pc = "done" /\ psq.ret.rss # <<>>) =>
           /\ ssPool.open
           /\ psq.ret.rss[1].sr = psq.sr

\* C34: whenever a block of a query is being read from storage, or the
\* StorageSearch of the query is still open, the in-flight query counter
\* vmstorage.WG is greater than zero.  Stated for ProcessSearchQuery and
\* its return: the search it obtained is open only while WG > 0.
C34_AsStated ==
    ssPool.open => vmstorage.WG > 0

=============================================================================
